---------------------------- MODULE Spec2Model ----------------------------
(***************************************************************************)
(* Embedded runtime manager of the launcher: the download lock (pid +      *)
(* timestamp, recovered when the owner died or the lock expired) and the   *)
(* install flow (resolve, download, extract to staging, permissions,       *)
(* metadata, atomic rename with temporary backup, final validation).       *)
(*                                                                         *)
(* Several launcher processes work on ONE install target: its final        *)
(* directory, its lock record and its index entry.  Every filesystem       *)
(* operation is one step; a process can be killed between any two steps.   *)
(***************************************************************************)
EXTENDS Integers, Sequences, FiniteSets, TLC

(* ------------------------------ bounds --------------------------------- *)
NumProcs == 2        \* launcher processes (pids 1..NumProcs)
MaxTime == 3         \* the clock runs 0..MaxTime
MaxInstalls == 2     \* installs extracted over the whole run
MaxKills == 1        \* kills of installing processes over the whole run
MaxMinor == 21       \* Minecraft versions 1.0 .. 1.MaxMinor
MaxPatch == 6        \* patch numbers 0 .. MaxPatch
MaxDirs == 3         \* directories ever created under the storage roots
MaxOutside == 1      \* changes made to the storage roots from outside
MaxEntries == 2      \* entries of a version catalog answer, and their ids
NumLoaders == 2      \* mod loaders offered beside vanilla
MaxLoaderVersions == 1 \* versions in an answer of get_loader_versions
MaxInFlight == 2     \* get_loader_versions calls not yet answered
MaxInstances == 2    \* instances on disk as the launcher starts
MaxCreated == 1      \* instances created afterwards
MaxSideCalls == 1    \* optimize calls waiting for the backend
MaxHistory == 3      \* views kept in backHistory
MaxPendingNav == 1   \* create or delete handlers waiting for the backend
NumSections == 3     \* sections of the creation screen that are clicked
MaxCreateHistory == 4 \* sections kept in createSectionHistory
MaxDeliveries == 3   \* bursts of events delivered to the listeners
LogBurst == 100      \* events of a long burst
MaxBytes == 4        \* bytes_downloaded and total_bytes of an event
MaxDownloadEvents == 2 \* download-progress events handled

(* --------------------------- program data ------------------------------ *)
TTL == 1             \* fixed age after which a lock record expires
MaxAttempts == 2     \* bounded attempt count of the download retry
KeepLogs == 100      \* entries a log keeps before it appends one
DownloadCap == 70    \* highest progress value of the download stage

Procs == 1..NumProcs

\* The installer's phases, in the order of the install flow.
Phases ==
  << "ResolveRelease", "Download", "Extract", "NormalizePermissions",
     "WriteManifest", "AtomicPromote", "PostInstallValidate" >>

PhaseSet == { Phases[i] : i \in 1..Len(Phases) }

PhaseIndex(ph) == CHOOSE i \in 1..Len(Phases) : Phases[i] = ph

\* Phases in which a failure or a cancellation discards the staging area.
PrePromotePhases ==
  { "ResolveRelease", "Download", "Extract", "NormalizePermissions",
    "WriteManifest" }

\* Lock record: owner pid + acquisition timestamp; owner 0 = no record.
NoLock == [owner |-> 0, at |-> 0]
LockRecord(p, t) == [owner |-> p, at |-> t]

\* An installed runtime directory; id 0 = nothing there.  good: java -version
\* succeeds on it; intact: its content matches the checksums of its manifest.
NoInst == [id |-> 0, good |-> FALSE, intact |-> FALSE]
OldInst == [id |-> 1, good |-> TRUE, intact |-> TRUE]

\* Staging area of one installer run; level 0 = no staging directory.
\* 1 archive being downloaded, 2 archive complete, 3 extracted,
\* 4 permissions applied, 5 manifest written.
NoStaging == [level |-> 0, id |-> 0, good |-> FALSE]

\* What a run remembers of the target as it was when the run began.
NoSnapshot == << NoInst, 0 >>

VARIABLES
  now,        \* wall clock
  alive,      \* alive[p]: a process with pid p is running
  pc,         \* pc[p]: position of process p
  lock,       \* the lock record of the target
  final,      \* the final install directory of the target
  staging,    \* staging[p]: staging directory of p's run
  backup,     \* backup[p]: previous install moved aside by p's run
  index,      \* id the index entry of the target was built from (0 = no entry)
  orphans,    \* installs left aside by killed processes
  debris,     \* staging directories left behind by killed processes
  attempts,   \* attempts[p]: download attempts of p's run
  nextId,     \* next fresh install id
  kills,      \* kills so far
  outcome,    \* outcome[p]: how p's call ended
  failedAt,   \* failedAt[p]: phase in which p's run failed or was cancelled
  seenWhy,    \* seenWhy[p]: what p's staleness check found
  raced,      \* raced[p]: another process wrote the lock since p read it
  trace,      \* trace[p]: phases p's run entered, in order
  before,     \* before[p]: final directory and index when p's run began
  validated   \* ids that passed the final validation

vars ==
  << now, alive, pc, lock, final, staging, backup, index, orphans, debris,
     attempts, nextId, kills, outcome, failedAt, seenWhy, raced, trace,
     before, validated >>

diskVars == << final, staging, backup, index, orphans, debris, nextId, validated >>

\* State of the role resolver, kept apart from the state of the installer.
VARIABLES
  mapping,    \* last derivation of a required major and the installed majors
  probe,      \* last run of the validator: executable, requirement, verdict
  dirs,       \* dirs[i]: the i-th directory created under a storage root
  dirCount,   \* directories created so far
  idx,        \* idx[i]: index entry of directory i
  outside,    \* changes made from outside so far
  res         \* outcome of the last call of the collaborator-facing API

\* Everything the lock manager and the installer leave alone.
rolesVars == << dirs, dirCount, idx, outside, res >>

\* State of the launcher UI (App): the Minecraft version catalog of the
\* creation screen.
VARIABLES
  versionsLoad,              \* where loadMinecraftVersions is
  minecraftVersions,         \* the catalog as stored
  minecraftVersionsError,    \* the load failed
  mcFilter,                  \* the five filter checkboxes
  minecraftVersionSearch,    \* the search box (0: empty)
  selectedMinecraftVersion,  \* id of the selected version (0: null)
  sentVersion,               \* minecraft_version of the last create_instance
  droppedEntries             \* entries of the answer that were not stored

versionVars ==
  << versionsLoad, minecraftVersions, minecraftVersionsError, mcFilter,
     minecraftVersionSearch, selectedMinecraftVersion, sentVersion,
     droppedEntries >>

\* The loader versions of the creation screen.
VARIABLES
  selectedLoaderType,        \* the radio button that is checked
  loaderVersions,            \* the list as stored
  selectedLoaderVersion,     \* the selected loader version
  loaderVersionsLoading,     \* "Cargando versiones de loader..."
  loaderVersionsError,       \* the last request failed
  loaderRequests             \* get_loader_versions calls not yet answered

loaderVars ==
  << selectedLoaderType, loaderVersions, selectedLoaderVersion,
     loaderVersionsLoading, loaderVersionsError, loaderRequests >>

\* The instances page and the delete confirmation of App.
VARIABLES
  stored,                    \* ids of the instances the backend holds
  instancesLoad,             \* list_instances of the mount effect is pending
  instances,                 \* ids of the instances listed
  selectedInstance,          \* id of the focused instance (0: null)
  selectedInstanceIds,       \* ids of the selected cards, in click order
  pendingDeleteInstances,    \* ids the modal asks about (<< >>: null)
  deleteInProgress,          \* the buttons of the modal are disabled
  deleteCalls,               \* deleteInstances calls that have not returned
  closeTimer,                \* the setTimeout of a successful delete is pending
  sideCalls                  \* other calls waiting for the backend

instanceVars ==
  << stored, instancesLoad, instances, selectedInstance, selectedInstanceIds,
     pendingDeleteInstances, deleteInProgress, deleteCalls, closeTimer,
     sideCalls >>

\* The view history of the top bar.
VARIABLES
  currentView,               \* the view shown
  backHistory,               \* views the back arrow returns to
  forwardHistory,            \* views the forward arrow returns to
  pendingNav,                \* handlers that will call navigateToView("home")
  navTarget                  \* view navigateToView was last called with

historyVars ==
  << currentView, backHistory, forwardHistory, pendingNav, navTarget >>

\* The section history of the creation screen.
VARIABLES
  activeCreateSection,       \* the section shown
  createSectionHistory,      \* sections visited
  createHistoryIndex,        \* place of the section shown in the history
  selectLog                  \* the last call of selectCreateSection

sectionVars ==
  << activeCreateSection, createSectionHistory, createHistoryIndex,
     selectLog >>

\* The launch progress of the instances, fed by the backend events.
VARIABLES
  selectedInstanceId,        \* id of the instance opened (0: null)
  instanceLaunchProgress,    \* progress entry of each instance, if any
  startCalls,                \* ids launch_instance has not answered for
  downloadLines              \* [DESCARGA] lines added to the logs

progressVars ==
  << selectedInstanceId, instanceLaunchProgress, startCalls, downloadLines >>

\* The state of App beside the creation screen and the instances page.
restVars == << historyVars, sectionVars, progressVars >>

\* The launch and creation logs fed by the backend events.
VARIABLES
  launchLogs,                \* entries of instance-launch-log kept
  launchProgress,            \* the last launch progress kept
  createLogs,                \* entries of instance-create-log kept
  eventClock,                \* events emitted by the backend so far
  deliveries,                \* bursts of events delivered so far
  lastEvent                  \* the burst delivered last

logVars ==
  << launchLogs, launchProgress, createLogs, eventClock, deliveries,
     lastEvent >>

\* The other state of App.
sideVars == << instanceVars, restVars, logVars >>

uiVars == << versionVars, loaderVars, sideVars >>
coreVars == << vars, mapping, probe, rolesVars >>
extVars == << mapping, probe, rolesVars, uiVars >>

(* --------------------- role resolver: required major -------------------- *)

\* The two runtime roles.
Roles == {"Gamma", "Delta"}

\* A Minecraft version: its dot-separated numbers ("1.20" or "1.20.4").
Versions ==
  {<< 1, m >> : m \in 0..MaxMinor}
    \cup {<< 1, m, q >> : m \in 0..MaxMinor, q \in 0..MaxPatch}

\* The i-th number of a version; a number that is not written counts as 0.
Part(v, i) == IF i <= Len(v) THEN v[i] ELSE 0

\* a <= b on versions, number by number.
VersionLE(a, b) ==
  \/ Part(a, 1) < Part(b, 1)
  \/ Part(a, 1) = Part(b, 1) /\ Part(a, 2) < Part(b, 2)
  \/ Part(a, 1) = Part(b, 1) /\ Part(a, 2) = Part(b, 2) /\ Part(a, 3) <= Part(b, 3)

\* Delta stays on Java 17.
DeltaMajor == 17

\* Gamma: ordered table of (first version of the range -> major).
GammaTable ==
  << [from |-> << 1, 0 >>, major |-> 17],
     [from |-> << 1, 20, 5 >>, major |-> 21] >>

\* The row of the table a version falls into: the last one that starts at
\* or below it.
TableRow(v) ==
  CHOOSE i \in 1..Len(GammaTable) :
    /\ VersionLE(GammaTable[i].from, v)
    /\ \A j \in (i + 1)..Len(GammaTable) : ~VersionLE(GammaTable[j].from, v)

\* (variant: the ranges are told apart by the minor number alone)
RequiredMajorByMinor(role, v) ==
  IF role = "Delta" THEN DeltaMajor
  ELSE IF Part(v, 2) <= 20 THEN 17 ELSE 21

\* Required Java major of a role for the Minecraft version of the instance.
RequiredMajor(role, v) ==
  IF role = "Delta" THEN DeltaMajor ELSE GammaTable[TableRow(v)].major

\* Nothing derived yet, nothing installed.
NoMapping == [role |-> "none", version |-> << >>, major |-> 0, installed |-> {}]

(* --------------------------- runtime validator -------------------------- *)

\* Candidate executables: who distributes it, how running java -version
\* ends, the version it prints (<< >>: nothing recognizable), its word size.
Vendors == {"Temurin", "Zulu"}
SpawnResults == {"ok", "nonzero", "timeout", "nospawn"}
Banners == {<< >>, << 1, 8, 0 >>, << 17, 0, 9 >>, << 21, 0, 1 >>, << 21 >>}
Executables ==
  [vendor : Vendors, spawn : SpawnResults, banner : Banners, arch : {32, 64}]

\* Minimum majors a requirement can ask for.
MinMajors == {8, 17, 21}

\* Major of a printed version; versions up to Java 8 are printed as 1.x.
\* 0: no major could be read.
ParseMajor(b) ==
  IF Len(b) = 0 THEN 0
  ELSE IF b[1] = 1 /\ Len(b) > 1 THEN b[2]
  ELSE b[1]

\* (variant: only the distribution the installer downloads is accepted)
ValidateKnownVendor(exe, min) ==
  IF /\ exe.vendor = "Temurin"
     /\ exe.spawn = "ok"
     /\ ParseMajor(exe.banner) # 0
     /\ ParseMajor(exe.banner) >= min
     /\ exe.arch = 64
  THEN "Usable" ELSE "Unusable"

\* validate(executablePath, requirement): the process runs and prints a
\* version, the major is compatible, the binary is 64-bit.
Validate(exe, min) ==
  IF /\ exe.spawn = "ok"
     /\ ParseMajor(exe.banner) # 0
     /\ ParseMajor(exe.banner) >= min
     /\ exe.arch = 64
  THEN "Usable" ELSE "Unusable"

\* The validator has not run.
NoProbe ==
  [exe |-> [vendor |-> "none", spawn |-> "none", banner |-> << >>, arch |-> 0],
   min |-> 0, verdict |-> "none"]

(* ------------------- storage roots, index, role resolver ---------------- *)

DirIds == 1..MaxDirs

\* Majors the resolver asks for.
Majors == {17, 21}

\* Installations kept per major by the retention policy.
KeepCount == 1

\* A directory under the storage root of a role.  manifest: it holds a
\* valid, parseable manifest; intact: its content matches the checksums of
\* the manifest; usable: the validator accepts its executable; mtime: its
\* modification time.  Directories are numbered in the order they appear.
NoDir ==
  [role |-> "none", major |-> 0, manifest |-> FALSE, intact |-> FALSE,
   usable |-> FALSE, mtime |-> 0]

\* Index entry: summarized manifest + modification time of the directory
\* when the entry was written.
NoEntry == [role |-> "none", major |-> 0, mtime |-> 0]

\* No call yet.  role: the role resolved; from: where the returned runtime
\* was taken from; host: the installer failed while a compatible system Java
\* existed; inUse: installations referenced by a live lock record or resolved
\* by an active role binding when the call pruned; deleted: installations
\* the call pruned.
NoRes ==
  [op |-> "none", role |-> "none", min |-> 0, kind |-> "none",
   from |-> "none", id |-> 0, installed |-> FALSE, host |-> FALSE,
   inUse |-> {}, deleted |-> {}]

\* Debug override: the forced role wins over the computed one.
EffectiveRole(role, force) == IF force = "none" THEN role ELSE force

\* A directory counts as an installation only with a valid manifest.
IsInstall(d) == d # NoDir /\ d.manifest

\* Summary of the manifest of a directory d and its modification time.
ManifestSummary(d) ==
  IF IsInstall(d)
  THEN [role |-> d.role, major |-> d.major, mtime |-> d.mtime]
  ELSE NoEntry

\* Summary of the manifest of directory i as it is on disk now.
EntryOf(i) == ManifestSummary(dirs[i])

\* The entry of i disagrees with the directory: gone, no manifest any more,
\* or modified since the entry was written.
EntryStale(i) ==
  /\ idx[i] # NoEntry
  /\ \/ ~IsInstall(dirs[i])
     \/ dirs[i].mtime # idx[i].mtime

\* (variant: the entries are trusted as they are)
CorrectedIndexTrusting(role, min) == idx

\* The index after the lookup for (role, min): every stale entry the lookup
\* meets is rebuilt from the manifest on disk, or dropped.
CorrectedIndex(role, min) ==
  [i \in DirIds |->
     IF idx[i].role = role /\ idx[i].major >= min /\ EntryStale(i)
     THEN EntryOf(i) ELSE idx[i]]

\* (variant: the entries of both roles are looked at)
ByIndexAnyRole(role, min) ==
  {i \in DirIds :
     /\ CorrectedIndex(role, min)[i].role \in Roles
     /\ CorrectedIndex(role, min)[i].major >= min
     /\ (dirs[i].intact \/ dirs[i].usable)}

\* Lookup in the index, then the cheap check: the checksums match, and
\* only when they do not the executable is run.
ByIndex(role, min) ==
  {i \in DirIds :
     /\ CorrectedIndex(role, min)[i].role = role
     /\ CorrectedIndex(role, min)[i].major >= min
     /\ (dirs[i].intact \/ dirs[i].usable)}

\* (variant: every directory of the storage root is a candidate)
ByScanAnyDirectory(role, min) ==
  {i \in DirIds :
     /\ dirs[i].role = role
     /\ dirs[i].major >= min
     /\ dirs[i].usable}

\* (variant: a candidate with a manifest is taken without validation)
ByScanUnvalidated(role, min) ==
  {i \in DirIds :
     /\ dirs[i].role = role /\ IsInstall(dirs[i])
     /\ dirs[i].major >= min}

\* Fallback: walk the storage root of the role (locator) and validate the
\* candidates.
ByScan(role, min) ==
  {i \in DirIds :
     /\ dirs[i].role = role /\ IsInstall(dirs[i])
     /\ dirs[i].major >= min
     /\ dirs[i].usable}

\* Of several compatible installations: the lowest major, then the newest.
Best(S) ==
  CHOOSE i \in S :
    \A j \in S : dirs[i].major < dirs[j].major
                   \/ (dirs[i].major = dirs[j].major /\ i >= j)

\* The installation the lookup finds (0: none).
Found(role, min) ==
  IF ByIndex(role, min) # {} THEN Best(ByIndex(role, min))
  ELSE IF ByScan(role, min) # {} THEN Best(ByScan(role, min))
  ELSE 0

\* The index after a lookup: corrected, and completed by the installation
\* that only the walk found.
IndexAfterLookup(role, min) ==
  IF ByIndex(role, min) = {} /\ ByScan(role, min) # {}
  THEN [CorrectedIndex(role, min) EXCEPT
          ![Best(ByScan(role, min))] = EntryOf(Best(ByScan(role, min)))]
  ELSE CorrectedIndex(role, min)

(* ------------------- launcher UI: version catalog ---------------------- *)

\* Ids of catalog entries.
VersionIds == 1..MaxEntries

\* What an entry of an answer carries in version_type and in type
\* ("null": the field is missing).
RawTypes == {"null", "release", "snapshot", "old_beta", "old_alpha", "demo"}

\* Entries of an answer of get_minecraft_versions_detailed or of the Mojang
\* manifest.  Beside a version_type the type is missing or "release"; alone
\* it is anything.
RawEntries ==
  {e \in [id : VersionIds, version_type : RawTypes, type : RawTypes,
          release_time : 1..MaxEntries] :
     e.version_type = "null" \/ e.type \in {"null", "release"}}

\* Answers: lists of at most MaxEntries entries.
Answers == UNION {[1..n -> RawEntries] : n \in 0..MaxEntries}

\* a ?? b
Coalesce(a, b) == IF a # "null" THEN a ELSE b

\* .map(...): id, release_time, version_type ?? type ?? "unknown"
NormalizeEntry(e) ==
  [id |-> e.id, release_time |-> e.release_time,
   version_type |-> Coalesce(e.version_type, Coalesce(e.type, "unknown"))]

\* .sort((a, b) => time(b) - time(a)): newest first, stable.
RECURSIVE SortNewestFirst(_)
SortNewestFirst(q) ==
  IF Len(q) <= 1 THEN q
  ELSE LET rest == SortNewestFirst(Tail(q))
           newer == SelectSeq(rest, LAMBDA x : x.release_time > Head(q).release_time)
           older == SelectSeq(rest, LAMBDA x : x.release_time <= Head(q).release_time)
       IN  newer \o << Head(q) >> \o older

\* (variant: the answer is stored without the release filter)
NormalizeUnfiltered(answer) ==
  SortNewestFirst([i \in 1..Len(answer) |-> NormalizeEntry(answer[i])])

\* .map(...).filter(version_type === "release").sort(...)
Normalize(answer) ==
  SortNewestFirst(
    SelectSeq([i \in 1..Len(answer) |-> NormalizeEntry(answer[i])],
              LAMBDA e : e.version_type = "release"))

\* The checkboxes as the screen opens.
DefaultFilter ==
  [versions |-> TRUE, snapshots |-> FALSE, betas |-> FALSE, alphas |-> FALSE,
   experiments |-> FALSE]

FilterNames == DOMAIN DefaultFilter

\* allowedByFilter
AllowedByFilter(e, f) ==
  LET isRelease == e.version_type = "release"
      isSnapshot == e.version_type = "snapshot"
      isBeta == e.version_type = "old_beta"
      isAlpha == e.version_type = "old_alpha"
      isExperimental == ~isRelease /\ ~isSnapshot /\ ~isBeta /\ ~isAlpha
  IN  \/ isRelease /\ f.versions
      \/ isSnapshot /\ f.snapshots
      \/ isBeta /\ f.betas
      \/ isAlpha /\ f.alphas
      \/ isExperimental /\ f.experiments

\* filteredMinecraftVersions: what the creation screen lists.  The search
\* box holds nothing or the text of one id.
FilteredMinecraftVersions ==
  SelectSeq(minecraftVersions,
            LAMBDA e : /\ AllowedByFilter(e, mcFilter)
                       /\ (minecraftVersionSearch = 0
                             \/ e.id = minecraftVersionSearch))

\* The effect that follows a change of the catalog: with nothing selected
\* the first entry is selected.
AutoSelect(versions, selected) ==
  IF selected = 0 /\ Len(versions) > 0 THEN versions[1].id ELSE selected

\* The creation screen as App mounts: the catalog request is in flight.
VersionsIdle ==
  /\ versionsLoad = "backend"
  /\ minecraftVersions = << >>
  /\ minecraftVersionsError = FALSE
  /\ mcFilter = DefaultFilter
  /\ minecraftVersionSearch = 0
  /\ selectedMinecraftVersion = 0
  /\ sentVersion = 0
  /\ droppedEntries = 0

(* ------------------ launcher UI: loader versions ------------------------ *)
\* LOADER_CHOICES without vanilla, in the order of the radio buttons.
ModLoaders == << "neoforge", "forge", "fabric", "quilt" >>

\* The loaders the user picks from.
LoaderTypes == {"vanilla"} \cup {ModLoaders[k] : k \in 1..NumLoaders}

\* A loader version is named by the pair it was published for and its
\* place in the answer.
LoaderVersion(loader, mc, n) ==
  [loaderType |-> loader, minecraftVersion |-> mc, n |-> n]

\* selectedLoaderVersion: null, and the "integrado" of vanilla.
NoLoaderVersion == LoaderVersion("null", 0, 0)
Integrado == LoaderVersion("vanilla", 0, 0)

\* What get_loader_versions returns for a pair: some first versions of the
\* pair's list.
LoaderAnswersOf(r) ==
  {[k \in 1..n |-> LoaderVersion(r.loaderType, r.minecraftVersion, k)] :
     n \in 0..MaxLoaderVersions}

\* normalized[0]?.version ?? null
FirstOrNull(versions) ==
  IF Len(versions) > 0 THEN versions[1] ELSE NoLoaderVersion

\* The effect on [selectedLoaderType, selectedMinecraftVersion] would send
\* a request.
SendsLoaderRequest(loader, mc) == mc # 0 /\ loader # "vanilla"

\* Room for one more request in flight.
LoaderRoom(loader, mc) ==
  \/ ~SendsLoaderRequest(loader, mc)
  \/ [loaderType |-> loader, minecraftVersion |-> mc] \in loaderRequests
  \/ Cardinality(loaderRequests) < MaxInFlight

\* The effect body for the new values of its dependencies: without a
\* version or with vanilla the list is emptied at once, otherwise
\* loadLoaderVersions runs up to its await.
RunLoaderEffect(loader, mc) ==
  IF ~SendsLoaderRequest(loader, mc)
  THEN /\ loaderVersions' = << >>
       /\ selectedLoaderVersion' =
            IF loader = "vanilla" THEN Integrado ELSE NoLoaderVersion
       /\ loaderVersionsError' = FALSE
       /\ loaderVersionsLoading' = FALSE
       /\ UNCHANGED loaderRequests
  ELSE /\ loaderVersionsLoading' = TRUE
       /\ loaderVersionsError' = FALSE
       /\ loaderRequests' =
            loaderRequests
              \cup {[loaderType |-> loader, minecraftVersion |-> mc]}
       /\ UNCHANGED << loaderVersions, selectedLoaderVersion >>

\* useEffect(..., [selectedLoaderType, selectedMinecraftVersion]): the body
\* runs when a dependency changed.
LoaderEffect(loader, mc) ==
  IF loader = selectedLoaderType /\ mc = selectedMinecraftVersion
  THEN UNCHANGED << loaderVersions, selectedLoaderVersion,
                    loaderVersionsLoading, loaderVersionsError,
                    loaderRequests >>
  ELSE RunLoaderEffect(loader, mc)

\* The loader panel after the effect ran at mount: vanilla, nothing asked.
LoaderIdle ==
  /\ selectedLoaderType = "vanilla"
  /\ loaderVersions = << >>
  /\ selectedLoaderVersion = Integrado
  /\ loaderVersionsLoading = FALSE
  /\ loaderVersionsError = FALSE
  /\ loaderRequests = {}

(* ------------------ launcher UI: instances and deletion ----------------- *)
\* Ids of the instances on disk as App mounts.
InstanceIds == 1..MaxInstances

\* pendingDeleteInstances: null.
NoPending == << >>

\* The members of a set of ids as a list, in the order of the backend.
RECURSIVE ListOf(_)
ListOf(ids) ==
  IF ids = {} THEN << >>
  ELSE LET least == CHOOSE i \in ids : \A j \in ids : i <= j
       IN  << least >> \o ListOf(ids \ {least})

\* The ids of a list.
IdsOf(list) == {list[k] : k \in 1..Len(list)}

\* Ids for the instances created later.
NewInstanceIds == (MaxInstances + 1)..(MaxInstances + MaxCreated)

\* Ids the backend can give to a new instance.
FreshIds ==
  NewInstanceIds
    \ (stored \cup instances \cup IdsOf(selectedInstanceIds)
         \cup {selectedInstance})

\* createInProgress: set before create_instance is invoked, reset in the
\* finally of createInstanceNow.
CreateInProgress == \E c \in sideCalls : c.op = "create"

\* A call of quickOptimizeInstance or createInstanceNow that
\* waits for the backend; it keeps the selectedInstance of the render it was
\* made from.
SideCall(op, id, phase) ==
  [op |-> op, id |-> id, phase |-> phase, seen |-> selectedInstance]

\* selectedInstances: the listed instances whose card is selected.
SelectedInstances ==
  ListOf({i \in instances : i \in IdsOf(selectedInstanceIds)})

\* The page as App mounts: list_instances is pending, nothing is listed.
InstancesIdle ==
  /\ stored = InstanceIds
  /\ instancesLoad = TRUE
  /\ instances = {}
  /\ selectedInstance = 0
  /\ selectedInstanceIds = << >>
  /\ pendingDeleteInstances = NoPending
  /\ deleteInProgress = FALSE
  /\ deleteCalls = {}
  /\ closeTimer = FALSE
  /\ sideCalls = {}

(* ------------------ launcher UI: view history --------------------------- *)
\* type View
Views ==
  {"home", "create-instance", "settings", "instance-detail",
   "instance-execution"}

\* showInstanceToolsOnly
ShowInstanceToolsOnly(view) ==
  view \in {"instance-detail", "instance-execution"}

\* The views the buttons of a view lead to: the sidebar, and on home
\* "+ Crear instancia" and the instance cards.
ButtonTargets(view) ==
  IF ShowInstanceToolsOnly(view)
  THEN {"home", "instance-detail", "instance-execution"}
  ELSE {"home", "settings"}
         \cup (IF view = "home" THEN {"create-instance", "instance-detail"}
               ELSE {})

\* A state of the history.
History(view, back, forward) ==
  [currentView |-> view, backHistory |-> back, forwardHistory |-> forward]

\* The history as it is.
HistoryNow == History(currentView, backHistory, forwardHistory)

\* prev.slice(0, -1)
AllButLast(q) == SubSeq(q, 1, Len(q) - 1)

\* navigateToView(nextView), called from a render whose currentView was
\* seen; no caller passes fromHistory.
NavigateToView(h, nextView, seen) ==
  IF nextView = seen THEN h
  ELSE History(nextView, Append(h.backHistory, seen), << >>)

\* handleNavigateBack
HandleNavigateBack(h) ==
  IF h.backHistory = << >> THEN h
  ELSE History(h.backHistory[Len(h.backHistory)], AllButLast(h.backHistory),
               << h.currentView >> \o h.forwardHistory)

\* handleNavigateForward
HandleNavigateForward(h) ==
  IF h.forwardHistory = << >> THEN h
  ELSE History(Head(h.forwardHistory), Append(h.backHistory, h.currentView),
               Tail(h.forwardHistory))

\* The history changes to h.
SetHistory(h) ==
  /\ currentView' = h.currentView
  /\ backHistory' = h.backHistory
  /\ forwardHistory' = h.forwardHistory

\* App as it mounts: home, no history.
HistoryIdle ==
  /\ currentView = "home"
  /\ backHistory = << >>
  /\ forwardHistory = << >>
  /\ pendingNav = {}
  /\ navTarget = "none"

(* ------------------ launcher UI: sections of the creation screen -------- *)
\* CREATE_SECTIONS
CreateSections ==
  << "Base", "Version", "Loader", "Java", "Memoria", "Mods", "Recursos",
     "Revision" >>

\* The sections the user clicks.
Sections == {CreateSections[k] : k \in 1..NumSections}

\* No call of selectCreateSection in the last step.
NoSelect == [section |-> "none", discarded |-> 0]

\* (variant: selecting appends to the whole history)
HistoryAfterSelectAppending(section) ==
  IF createSectionHistory[Len(createSectionHistory)] = section
  THEN createSectionHistory
  ELSE Append(createSectionHistory, section)

\* The updater of selectCreateSection: the history up to the section shown,
\* and the section selected unless it ends that history.  (prev.slice(0,
\* createHistoryIndex + 1): the index counts from 0.)
HistoryAfterSelect(section) ==
  LET compact == SubSeq(createSectionHistory, 1, createHistoryIndex + 1)
  IN  IF compact[Len(compact)] = section THEN compact
      ELSE Append(compact, section)

\* The creation screen as App mounts.
SectionsIdle ==
  /\ activeCreateSection = "Base"
  /\ createSectionHistory = << "Base" >>
  /\ createHistoryIndex = 0
  /\ selectLog = NoSelect

(* ------------------ launcher UI: launch and creation logs --------------- *)
\* launchProgress: null.
NoProgress == [id |-> 0, n |-> 0]

\* No burst was delivered.
NoEvent == [kind |-> "none", id |-> 0, first |-> 0, count |-> 0]

\* The events a burst carries: count events of one instance, numbered as
\* the backend emitted them.
EventsOf(burst) ==
  [j \in 1..burst.count |-> [id |-> burst.id, n |-> burst.first + j - 1]]

\* prev.slice(-k)
SliceLast(prev, k) ==
  SubSeq(prev, IF Len(prev) > k THEN Len(prev) - k + 1 ELSE 1, Len(prev))

\* (variant: the log keeps one entry more)
AppendLogKeepingMore(prev, payload) ==
  Append(SliceLast(prev, KeepLogs + 1), payload)

\* (prev) => [...prev.slice(-100), event.payload]
AppendLog(prev, payload) == Append(SliceLast(prev, KeepLogs), payload)

\* The log after the events of a list were handled one after the other.
RECURSIVE AppendLogs(_, _)
AppendLogs(prev, events) ==
  IF events = << >> THEN prev
  ELSE IF Len(events) = 1 THEN AppendLog(prev, events[1])
  ELSE LET half == Len(events) \div 2
           first == AppendLogs(prev, SubSeq(events, 1, half))
       IN  IF Len(first) > 0
           THEN AppendLogs(first, SubSeq(events, half + 1, Len(events)))
           ELSE << >>

\* (variant: the listeners take the events of every instance)
PassesFilterAlways(id) == TRUE

\* if (selectedInstance && event.payload.id !== selectedInstance.id) return;
PassesFilter(id) == ~(selectedInstance # 0 /\ id # selectedInstance)

\* No event was emitted yet.
LogsIdle ==
  /\ launchLogs = << >>
  /\ launchProgress = NoProgress
  /\ createLogs = << >>
  /\ eventClock = 0
  /\ deliveries = 0
  /\ lastEvent = NoEvent

(* ------------------ launcher UI: launch progress ------------------------ *)
\* An instance without a progress entry.
NoEntryYet == [state |-> "none", value |-> 0, stage |-> "none"]

\* InstanceLaunchProgress["state"]
ProgressStates == {"idle", "running", "done", "error"}

\* Values the backend reports with instance-launch-progress.
ReportedValues == {0, 50, 80, 100}

\* payload.total_bytes: null.
NoTotal == 0 - 1

\* total_bytes ?? bytes_downloaded
TotalOf(bytes, total) == IF total = NoTotal THEN bytes ELSE total

\* Math.round(Math.min(70, 20 + ratio * 0.5)) with ratio = total > 0 ?
\* Math.min(bytes / total * 100, 100) : 0, in exact arithmetic:
\* 20 + ratio * 0.5 is 20 + 50 * bytes / total, rounded half up, and at
\* most 70.
DownloadValue(bytes, total) ==
  IF TotalOf(bytes, total) <= 0 THEN 20
  ELSE IF bytes >= TotalOf(bytes, total) THEN DownloadCap
  ELSE 20 + (100 * bytes + TotalOf(bytes, total))
              \div (2 * TotalOf(bytes, total))

\* Math.max(a, b)
MathMax(a, b) == IF a >= b THEN a ELSE b

\* (variant: the entry takes the value computed from the event)
AfterDownloadLatest(current, bytes, total) ==
  IF current = NoEntryYet \/ current.state = "done" THEN current
  ELSE [current EXCEPT !.value = DownloadValue(bytes, total),
                       !.stage = "download"]

\* The updater of the download-progress listener, for the entry of the
\* active instance.
AfterDownload(current, bytes, total) ==
  IF current = NoEntryYet \/ current.state = "done" THEN current
  ELSE [current EXCEPT
          !.value = MathMax(current.value, DownloadValue(bytes, total)),
          !.stage = "download"]

\* App as it mounts: no instance opened, no progress.
ProgressIdle ==
  /\ selectedInstanceId = 0
  /\ instanceLaunchProgress = [i \in InstanceIds |-> NoEntryYet]
  /\ startCalls = {}
  /\ downloadLines = 0

UiIdle ==
  /\ VersionsIdle /\ LoaderIdle /\ InstancesIdle /\ HistoryIdle
  /\ SectionsIdle /\ LogsIdle /\ ProgressIdle

\* The role resolver has not been called.
ExtIdle ==
  /\ UiIdle
  /\ mapping = NoMapping /\ probe = NoProbe
  /\ dirs = [i \in DirIds |-> NoDir]
  /\ dirCount = 0
  /\ idx = [i \in DirIds |-> NoEntry]
  /\ outside = 0
  /\ res = NoRes

acqVars == << seenWhy, raced >>
runVars == << attempts, outcome, failedAt, trace, before >>

(* ---------------------------- lock manager ----------------------------- *)

\* Staleness: the owner process is not running, or the record is older
\* than the TTL.
OwnerDead(rec) == ~alive[rec.owner]

\* (variant: the record counts as expired already at age TTL)
ExpiredAtTTL(rec) == now - rec.at >= TTL

Expired(rec) == now - rec.at > TTL

\* (variant: only the age is looked at)
IsStaleAgeOnly(rec) == Expired(rec)

\* (variant: only the owner is looked at)
IsStaleDeadOnly(rec) == OwnerDead(rec)

IsStale(rec) == OwnerDead(rec) \/ Expired(rec)

\* What the staleness check of a present record reports.
Classify(rec) ==
  IF OwnerDead(rec) THEN (IF Expired(rec) THEN "dead+expired" ELSE "dead")
  ELSE IF Expired(rec) THEN "expired" ELSE "fresh"

\* Another process changing the lock record is noted by every process that
\* is between its read and the end of its acquire.
NoteRace(p) ==
  [q \in Procs |->
     IF q # p /\ pc[q] \in {"acq_create", "acq_overwrite", "acq_recheck"}
     THEN TRUE ELSE raced[q]]


(* ------------------------------- Init ---------------------------------- *)

\* A launcher start: no process is installing; the target holds nothing, a
\* validated install, or a validated install whose content no longer
\* matches its manifest.
Init ==
  /\ now = 0
  /\ alive = [p \in Procs |-> TRUE]
  /\ pc = [p \in Procs |-> "idle"]
  /\ lock = NoLock
  /\ final \in {NoInst, OldInst, [OldInst EXCEPT !.intact = FALSE]}
  /\ staging = [p \in Procs |-> NoStaging]
  /\ backup = [p \in Procs |-> NoInst]
  /\ index = final.id
  /\ orphans = {}
  /\ debris = 0
  /\ attempts = [p \in Procs |-> 0]
  /\ nextId = 2
  /\ kills = 0
  /\ outcome = [p \in Procs |-> "none"]
  /\ failedAt = [p \in Procs |-> "none"]
  /\ seenWhy = [p \in Procs |-> "none"]
  /\ raced = [p \in Procs |-> FALSE]
  /\ trace = [p \in Procs |-> << >>]
  /\ before = [p \in Procs |-> NoSnapshot]
  /\ validated = IF final.id = 0 THEN {} ELSE {final.id}
  /\ ExtIdle

(* ------------------------------ resolve -------------------------------- *)

\* The cheap check of resolution: a manifest is there and its checksums
\* agree with the directory (no subprocess is run).
Acceptable(inst) == inst.id # 0 /\ inst.intact

\* ensureInstalled: nothing to do when the target resolves; otherwise the
\* installer is invoked, which first takes the lock.
EnsureInstalled(p) ==
  /\ alive[p] /\ pc[p] = "idle"
  /\ IF Acceptable(final)
     THEN /\ pc' = [pc EXCEPT ![p] = "done"]
          /\ outcome' = [outcome EXCEPT ![p] = "present"]
     ELSE /\ pc' = [pc EXCEPT ![p] = "acq_read"]
          /\ outcome' = outcome
  /\ UNCHANGED << now, alive, lock, diskVars, attempts, kills, failedAt,
                  acqVars, trace, before >>
  /\ UNCHANGED extVars

(* ------------------------------ acquire -------------------------------- *)

\* Entering the installer's first phase after acquire returned Held.
Held(p) ==
  /\ pc' = [pc EXCEPT ![p] = "ResolveRelease"]
  /\ trace' = [trace EXCEPT ![p] = << "ResolveRelease" >>]
  /\ before' = [before EXCEPT ![p] = << final, index >>]
  /\ UNCHANGED << outcome, failedAt >>

\* acquire returned Busy: LockContention goes to the caller, no waiting.
Busy(p) ==
  /\ pc' = [pc EXCEPT ![p] = "busy"]
  /\ outcome' = [outcome EXCEPT ![p] = "LockContention"]
  /\ UNCHANGED << trace, failedAt, before >>

\* Read the existing record and check its staleness.
AcquireRead(p) ==
  /\ alive[p] /\ pc[p] = "acq_read"
  /\ raced' = [raced EXCEPT ![p] = FALSE]
  /\ IF lock = NoLock
     THEN /\ seenWhy' = [seenWhy EXCEPT ![p] = "absent"]
          /\ pc' = [pc EXCEPT ![p] = "acq_create"]
          /\ UNCHANGED << outcome, trace, failedAt, before >>
     ELSE IF IsStale(lock)
     THEN /\ seenWhy' = [seenWhy EXCEPT ![p] = Classify(lock)]
          /\ pc' = [pc EXCEPT ![p] = "acq_overwrite"]
          /\ UNCHANGED << outcome, trace, failedAt, before >>
     ELSE /\ seenWhy' = [seenWhy EXCEPT ![p] = "fresh"]
          /\ Busy(p)
  /\ UNCHANGED << now, alive, lock, diskVars, attempts, kills >>
  /\ UNCHANGED extVars

\* No record was read: create it with create-if-absent semantics.  When a
\* record appeared in the meantime the creation fails and the record is read.
AcquireCreate(p) ==
  /\ alive[p] /\ pc[p] = "acq_create"
  /\ IF lock = NoLock
     THEN /\ lock' = LockRecord(p, now)
          /\ raced' = NoteRace(p)
          /\ Held(p)
     ELSE /\ pc' = [pc EXCEPT ![p] = "acq_read"]
          /\ UNCHANGED << lock, raced, outcome, trace, failedAt, before >>
  /\ UNCHANGED << now, alive, diskVars, attempts, kills, seenWhy >>
  /\ UNCHANGED extVars

\* A stale record was read: overwrite it (reclaim the abandoned lock).
AcquireOverwrite(p) ==
  /\ alive[p] /\ pc[p] = "acq_overwrite"
  /\ lock' = LockRecord(p, now)
  /\ raced' = NoteRace(p)
  /\ pc' = [pc EXCEPT ![p] = "acq_recheck"]
  /\ UNCHANGED << now, alive, diskVars, runVars, kills, seenWhy >>
  /\ UNCHANGED extVars

\* Re-check after the write: Held when the record is still the caller's.
AcquireRecheck(p) ==
  /\ alive[p] /\ pc[p] = "acq_recheck"
  /\ IF lock.owner = p THEN Held(p) ELSE Busy(p)
  /\ UNCHANGED << now, alive, lock, diskVars, attempts, kills, acqVars >>
  /\ UNCHANGED extVars

\* Release: an explicit delete of the record.
Release(p) ==
  /\ alive[p] /\ pc[p] = "release"
  /\ lock' = NoLock
  /\ raced' = NoteRace(p)
  /\ pc' = [pc EXCEPT ![p] = "done"]
  /\ before' = [before EXCEPT ![p] = NoSnapshot]
  /\ UNCHANGED << now, alive, diskVars, attempts, outcome, failedAt, trace,
                  kills, seenWhy >>
  /\ UNCHANGED extVars

(* ----------------------------- installer ------------------------------ *)

\* Completing a phase enters the next one.
Enter(p, ph) ==
  /\ pc' = [pc EXCEPT ![p] = ph]
  /\ trace' = [trace EXCEPT ![p] = Append(trace[p], ph)]

\* A failure (or a cancellation) in phase pc[p]; next is where the run
\* continues: its cleanup or its rollback.
Abort(p, how, next) ==
  /\ outcome' = [outcome EXCEPT ![p] = how]
  /\ failedAt' = [failedAt EXCEPT ![p] = pc[p]]
  /\ pc' = [pc EXCEPT ![p] = next]
  /\ trace' = trace

\* 1. Resolve the release (jre, then jdk).
ResolveRelease(p) ==
  /\ alive[p] /\ pc[p] = "ResolveRelease"
  /\ \/ /\ Enter(p, "Download")
        /\ attempts' = [attempts EXCEPT ![p] = 1]
        /\ staging' = [staging EXCEPT ![p] = [level |-> 1, id |-> 0, good |-> FALSE]]
        /\ UNCHANGED << outcome, failedAt >>
     \/ /\ Abort(p, "failed", "cleanup")
        /\ UNCHANGED << attempts, staging >>
  /\ seenWhy' = [seenWhy EXCEPT ![p] = "none"]
  /\ raced' = [raced EXCEPT ![p] = FALSE]
  /\ UNCHANGED << now, before, alive, lock, final, backup, index, orphans, debris,
                  nextId, validated, kills >>
  /\ UNCHANGED extVars

\* (variant: the first failed attempt is surfaced, nothing is retried)
DownloadSurfacesAtOnce(p) ==
  /\ alive[p] /\ pc[p] = "Download"
  /\ \/ /\ Enter(p, "Extract")
        /\ staging' = [staging EXCEPT ![p].level = 2]
        /\ attempts' = [attempts EXCEPT ![p] = 0]
        /\ UNCHANGED << outcome, failedAt >>
     \/ /\ Abort(p, "failed", "cleanup")
        /\ attempts' = [attempts EXCEPT ![p] = 0]
        /\ UNCHANGED staging
  /\ UNCHANGED << now, before, alive, lock, final, backup, index, orphans, debris,
                  nextId, validated, kills, acqVars >>
  /\ UNCHANGED extVars

\* 2. Download the archive: a failed attempt is retried until the attempt
\* count is used up, then the failure is surfaced.
Download(p) ==
  /\ alive[p] /\ pc[p] = "Download"
  /\ \/ /\ Enter(p, "Extract")
        /\ staging' = [staging EXCEPT ![p].level = 2]
        /\ attempts' = [attempts EXCEPT ![p] = 0]
        /\ UNCHANGED << outcome, failedAt >>
     \/ /\ attempts[p] < MaxAttempts
        /\ attempts' = [attempts EXCEPT ![p] = attempts[p] + 1]
        /\ UNCHANGED << pc, trace, staging, outcome, failedAt >>
     \/ /\ attempts[p] >= MaxAttempts
        /\ Abort(p, "failed", "cleanup")
        /\ attempts' = [attempts EXCEPT ![p] = 0]
        /\ UNCHANGED staging
  /\ UNCHANGED << now, before, alive, lock, final, backup, index, orphans, debris,
                  nextId, validated, kills, acqVars >>
  /\ UNCHANGED extVars

\* (variant: where permissions need no change the phase is jumped over)
ExtractSkipsPermissions(p) ==
  /\ alive[p] /\ pc[p] = "Extract"
  /\ \/ /\ nextId <= MaxInstalls + 1
        /\ \E g \in BOOLEAN :
             staging' = [staging EXCEPT ![p] = [level |-> 4, id |-> nextId, good |-> g]]
        /\ nextId' = nextId + 1
        /\ Enter(p, "WriteManifest")
        /\ UNCHANGED << outcome, failedAt >>
     \/ /\ Abort(p, "failed", "cleanup")
        /\ UNCHANGED << staging, nextId >>
  /\ UNCHANGED << now, before, alive, lock, final, backup, index, orphans, debris,
                  validated, kills, acqVars, attempts >>
  /\ UNCHANGED extVars

\* 3. Extract into the staging directory.  The extracted runtime may or may
\* not be one on which java -version succeeds.
Extract(p) ==
  /\ alive[p] /\ pc[p] = "Extract"
  /\ \/ /\ nextId <= MaxInstalls + 1
        /\ \E g \in BOOLEAN :
             staging' = [staging EXCEPT ![p] = [level |-> 3, id |-> nextId, good |-> g]]
        /\ nextId' = nextId + 1
        /\ Enter(p, "NormalizePermissions")
        /\ UNCHANGED << outcome, failedAt >>
     \/ /\ Abort(p, "failed", "cleanup")
        /\ UNCHANGED << staging, nextId >>
  /\ UNCHANGED << now, before, alive, lock, final, backup, index, orphans, debris,
                  validated, kills, acqVars, attempts >>
  /\ UNCHANGED extVars

\* 4. Mark the executable runnable (nothing to do where it is unnecessary).
NormalizePermissions(p) ==
  /\ alive[p] /\ pc[p] = "NormalizePermissions"
  /\ \/ /\ Enter(p, "WriteManifest")
        /\ staging' = [staging EXCEPT ![p].level = 4]
        /\ UNCHANGED << outcome, failedAt >>
     \/ /\ Abort(p, "failed", "cleanup")
        /\ UNCHANGED staging
  /\ UNCHANGED << now, before, alive, lock, final, backup, index, orphans, debris,
                  nextId, validated, kills, acqVars, attempts >>
  /\ UNCHANGED extVars

\* 5. Write the versioned metadata into the staging directory.
WriteManifest(p) ==
  /\ alive[p] /\ pc[p] = "WriteManifest"
  /\ \/ /\ Enter(p, "AtomicPromote")
        /\ staging' = [staging EXCEPT ![p].level = 5]
        /\ UNCHANGED << outcome, failedAt >>
     \/ /\ Abort(p, "failed", "cleanup")
        /\ UNCHANGED staging
  /\ UNCHANGED << now, before, alive, lock, final, backup, index, orphans, debris,
                  nextId, validated, kills, acqVars, attempts >>
  /\ UNCHANGED extVars

\* Cancellation, possible before AtomicPromote only.
Cancel(p) ==
  /\ alive[p] /\ pc[p] \in PrePromotePhases
  /\ Abort(p, "cancelled", "cleanup")
  /\ attempts' = [attempts EXCEPT ![p] = 0]
  /\ seenWhy' = [seenWhy EXCEPT ![p] = "none"]
  /\ raced' = [raced EXCEPT ![p] = FALSE]
  /\ UNCHANGED << now, before, alive, lock, diskVars, kills >>
  /\ UNCHANGED extVars

\* Failure or cancellation before the promotion: discard the staging area.
Cleanup(p) ==
  /\ alive[p] /\ pc[p] = "cleanup"
  /\ staging' = [staging EXCEPT ![p] = NoStaging]
  /\ pc' = [pc EXCEPT ![p] = "release"]
  /\ trace' = [trace EXCEPT ![p] = << >>]
  /\ failedAt' = [failedAt EXCEPT ![p] = "none"]
  /\ UNCHANGED << now, before, alive, lock, final, backup, index, orphans, debris,
                  nextId, validated, kills, acqVars, attempts, outcome >>
  /\ UNCHANGED extVars

\* 6a. AtomicPromote, first half: a previous install occupying the final
\* location is moved aside.
MoveAside(p) ==
  /\ alive[p] /\ pc[p] = "AtomicPromote"
  /\ IF final # NoInst
     THEN /\ backup' = [backup EXCEPT ![p] = final]
          /\ final' = NoInst
     ELSE UNCHANGED << backup, final >>
  /\ pc' = [pc EXCEPT ![p] = "promote_rename"]
  /\ before' = [before EXCEPT ![p] = NoSnapshot]
  /\ UNCHANGED << now, alive, lock, staging, index, orphans, debris, nextId,
                  validated, kills, acqVars, attempts, outcome, failedAt,
                  trace >>
  /\ UNCHANGED extVars

\* 6b. AtomicPromote, second half: rename the staging directory to the final
\* location.  The rename fails when the location is occupied, and may fail
\* otherwise; the run is then rolled back.
PromoteRename(p) ==
  /\ alive[p] /\ pc[p] = "promote_rename"
  /\ \/ /\ final = NoInst
        /\ final' = [id |-> staging[p].id, good |-> staging[p].good, intact |-> TRUE]
        /\ staging' = [staging EXCEPT ![p] = NoStaging]
        /\ Enter(p, "PostInstallValidate")
        /\ UNCHANGED << outcome, failedAt >>
     \/ /\ outcome' = [outcome EXCEPT ![p] = "promote_failed"]
        /\ failedAt' = [failedAt EXCEPT ![p] = "AtomicPromote"]
        /\ pc' = [pc EXCEPT ![p] = "rollback_restore"]
        /\ staging' = [staging EXCEPT ![p] = NoStaging]
        /\ UNCHANGED << final, trace >>
  /\ UNCHANGED << now, before, alive, lock, backup, index, orphans, debris, nextId,
                  validated, kills, acqVars, attempts >>
  /\ UNCHANGED extVars

\* 7. Validate the final runtime with java -version.  A timeout of the
\* subprocess is a failure like any other.
PostInstallValidate(p) ==
  /\ alive[p] /\ pc[p] = "PostInstallValidate"
  /\ \/ /\ final # NoInst /\ final.good
        /\ validated' = validated \cup {final.id}
        /\ pc' = [pc EXCEPT ![p] = "commit"]
        /\ UNCHANGED << outcome, failedAt, trace >>
     \/ /\ Abort(p, "validation_failed", "rollback_remove")
        /\ UNCHANGED validated
  /\ UNCHANGED << now, before, alive, lock, final, staging, backup, index, orphans,
                  debris, nextId, kills, acqVars, attempts >>
  /\ UNCHANGED extVars

\* Validation succeeded: only now the previous install is deleted, and the
\* index entry is rewritten from the manifest of the final directory.
Commit(p) ==
  /\ alive[p] /\ pc[p] = "commit"
  /\ backup' = [backup EXCEPT ![p] = NoInst]
  /\ index' = final.id
  /\ outcome' = [outcome EXCEPT ![p] = "ok"]
  /\ pc' = [pc EXCEPT ![p] = "release"]
  /\ UNCHANGED << now, before, alive, lock, final, staging, orphans, debris, nextId,
                  validated, kills, acqVars, attempts, failedAt, trace >>
  /\ UNCHANGED extVars

\* Validation failed: remove the new directory from the final location ...
RollbackRemove(p) ==
  /\ alive[p] /\ pc[p] = "rollback_remove"
  /\ final' = NoInst
  /\ pc' = [pc EXCEPT ![p] = "rollback_restore"]
  /\ UNCHANGED << now, alive, lock, staging, backup, index, orphans, debris,
                  nextId, validated, kills, acqVars, runVars >>
  /\ UNCHANGED extVars

\* ... and move the previous install back (when the location is free).
RollbackRestore(p) ==
  /\ alive[p] /\ pc[p] = "rollback_restore"
  /\ IF final = NoInst /\ backup[p] # NoInst
     THEN /\ final' = backup[p]
          /\ backup' = [backup EXCEPT ![p] = NoInst]
     ELSE UNCHANGED << final, backup >>
  /\ pc' = [pc EXCEPT ![p] = "release"]
  /\ UNCHANGED << now, alive, lock, staging, index, orphans, debris, nextId,
                  validated, kills, acqVars, runVars >>
  /\ UNCHANGED extVars

(* ------------------------- caller and environment ---------------------- *)

\* The call returns to the collaborator: with the manifest, or with the
\* error (LockContention, the failure of a phase, the cancellation).
Return(p) ==
  /\ alive[p] /\ pc[p] \in {"done", "busy"}
  /\ pc' = [pc EXCEPT ![p] = "idle"]
  /\ outcome' = [outcome EXCEPT ![p] = "none"]
  /\ failedAt' = [failedAt EXCEPT ![p] = "none"]
  /\ attempts' = [attempts EXCEPT ![p] = 0]
  /\ trace' = [trace EXCEPT ![p] = << >>]
  /\ seenWhy' = [seenWhy EXCEPT ![p] = "none"]
  /\ raced' = [raced EXCEPT ![p] = FALSE]
  /\ orphans' = IF backup[p] # NoInst THEN orphans \cup {backup[p].id} ELSE orphans
  /\ backup' = [backup EXCEPT ![p] = NoInst]
  /\ before' = [before EXCEPT ![p] = NoSnapshot]
  /\ UNCHANGED << now, alive, lock, final, staging, index, debris, nextId,
                  validated, kills >>
  /\ UNCHANGED extVars

\* The process is killed: whatever it left on disk stays there.
Kill(p) ==
  /\ alive[p] /\ pc[p] # "idle"
  /\ kills < MaxKills
  /\ kills' = kills + 1
  /\ alive' = [alive EXCEPT ![p] = FALSE]
  /\ pc' = [pc EXCEPT ![p] = "dead"]
  /\ debris' = IF staging[p] # NoStaging THEN debris + 1 ELSE debris
  /\ staging' = [staging EXCEPT ![p] = NoStaging]
  /\ orphans' = IF backup[p] # NoInst THEN orphans \cup {backup[p].id} ELSE orphans
  /\ backup' = [backup EXCEPT ![p] = NoInst]
  /\ outcome' = [outcome EXCEPT ![p] = "killed"]
  /\ failedAt' = [failedAt EXCEPT ![p] = pc[p]]
  /\ attempts' = [attempts EXCEPT ![p] = 0]
  /\ trace' = [trace EXCEPT ![p] = << >>]
  /\ seenWhy' = [seenWhy EXCEPT ![p] = "none"]
  /\ raced' = [raced EXCEPT ![p] = FALSE]
  /\ before' = [before EXCEPT ![p] = NoSnapshot]
  /\ UNCHANGED << now, lock, final, index, nextId, validated >>
  /\ UNCHANGED extVars

\* A new launcher process starts; the system may give it the pid of a dead one.
Respawn(p) ==
  /\ ~alive[p]
  /\ alive' = [alive EXCEPT ![p] = TRUE]
  /\ pc' = [pc EXCEPT ![p] = "idle"]
  /\ outcome' = [outcome EXCEPT ![p] = "none"]
  /\ failedAt' = [failedAt EXCEPT ![p] = "none"]
  /\ UNCHANGED << now, before, lock, diskVars, attempts, kills, acqVars, trace >>
  /\ UNCHANGED extVars

\* Time passes.  Only the age of the lock record is ever read, so the clock
\* is followed while a record exists that has not expired yet.
Tick ==
  /\ now < MaxTime
  /\ lock # NoLock /\ ~Expired(lock)
  /\ now' = now + 1
  /\ UNCHANGED << alive, pc, lock, diskVars, kills, acqVars, runVars >>
  /\ UNCHANGED extVars

Next ==
  \/ \E p \in Procs :
       \/ EnsureInstalled(p)
       \/ AcquireRead(p)
       \/ AcquireCreate(p)
       \/ AcquireOverwrite(p)
       \/ AcquireRecheck(p)
       \/ ResolveRelease(p)
       \/ Download(p)
       \/ Extract(p)
       \/ NormalizePermissions(p)
       \/ WriteManifest(p)
       \/ Cancel(p)
       \/ Cleanup(p)
       \/ MoveAside(p)
       \/ PromoteRename(p)
       \/ PostInstallValidate(p)
       \/ Commit(p)
       \/ RollbackRemove(p)
       \/ RollbackRestore(p)
       \/ Release(p)
       \/ Return(p)
       \/ Kill(p)
       \/ Respawn(p)
  \/ Tick

allVars == << vars, extVars >>

Spec == Init /\ [][Next]_allVars

(* ------------------------- derived predicates -------------------------- *)

\* Positions between acquire returning Held and the release of the lock.
HoldingPcs ==
  PhaseSet \cup {"promote_rename", "commit", "rollback_remove",
                 "rollback_restore", "cleanup", "release"}

\* p has received Held and has not released yet.
Holds(p) == alive[p] /\ pc[p] \in HoldingPcs

\* p is inside the installer's phases.
InPhases(p) == alive[p] /\ pc[p] \in PhaseSet \cup {"promote_rename"}

StaleKinds == {"dead", "expired", "dead+expired"}

(* ------------------------------- claims -------------------------------- *)

\* C1: lock mutual exclusion.  While the lock record is not stale at most
\* one process holds the lock, and two processes are never inside the
\* install phases of the target at the same time.
C1_MutualExclusion ==
  /\ (lock # NoLock /\ ~IsStale(lock)) =>
       Cardinality({p \in Procs : Holds(p)}) <= 1
  /\ Cardinality({p \in Procs : InPhases(p)}) <= 1

\* A step of acquire taken by p from position at.
AcqStep(p, at) == pc[p] = at /\ pc'[p] # at /\ alive'[p]

\* C2: acquire on an absent record writes (caller, now) and returns Held;
\* acquire on a record whose owner is alive and whose age is <= TTL returns
\* Busy and leaves the record as it is.
C2_AcquireOutcomes ==
  [][\A p \in Procs :
       /\ (AcqStep(p, "acq_read") /\ lock = NoLock) =>
            (pc'[p] = "acq_create" /\ lock' = lock)
       /\ (AcqStep(p, "acq_create") /\ lock = NoLock) =>
            (lock' = LockRecord(p, now) /\ pc'[p] = "ResolveRelease")
       /\ (AcqStep(p, "acq_read") /\ lock # NoLock
             /\ alive[lock.owner] /\ now - lock.at <= TTL) =>
            (pc'[p] = "busy" /\ lock' = lock)
    ]_vars

\* One process just received Held on an absent record while another one
\* received Busy on that fresh record.
C2_Witness ==
  \E p, q \in Procs :
    /\ p # q
    /\ pc[p] = "ResolveRelease" /\ seenWhy[p] = "absent"
    /\ lock = LockRecord(p, now)
    /\ pc[q] = "busy" /\ seenWhy[q] = "fresh"

\* C3: a record whose owner is not a live process is reclaimed by the
\* acquire that reads it, whatever its age: the call overwrites the record
\* with (caller, now) and returns Held.
C3_NextAcquireHeld ==
  [][\A p \in Procs :
       /\ (AcqStep(p, "acq_read") /\ lock # NoLock /\ ~alive[lock.owner]) =>
            pc'[p] = "acq_overwrite"
       /\ (AcqStep(p, "acq_overwrite") /\ seenWhy[p] \in {"dead", "dead+expired"}) =>
            (lock' = LockRecord(p, now) /\ pc'[p] = "acq_recheck")
       /\ (AcqStep(p, "acq_recheck") /\ seenWhy[p] \in {"dead", "dead+expired"}) =>
            (pc'[p] = "ResolveRelease" /\ lock'.owner = p)
    ]_vars

\* C3 (amended): as above, and the call returns Held unless another process
\* wrote the record while the call was between its read and its re-check.
C3_DeadOwnerReclaim ==
  [][\A p \in Procs :
       /\ (AcqStep(p, "acq_read") /\ lock # NoLock /\ ~alive[lock.owner]) =>
            pc'[p] = "acq_overwrite"
       /\ (AcqStep(p, "acq_overwrite") /\ seenWhy[p] \in {"dead", "dead+expired"}) =>
            (lock' = LockRecord(p, now) /\ pc'[p] = "acq_recheck")
       /\ (AcqStep(p, "acq_recheck") /\ seenWhy[p] \in {"dead", "dead+expired"}
             /\ ~raced[p]) =>
            (pc'[p] = "ResolveRelease" /\ lock'.owner = p)
    ]_vars

\* A process holds the lock it reclaimed from a dead owner whose record had
\* not reached the TTL.
C3_Witness ==
  \E p \in Procs :
    pc[p] = "ResolveRelease" /\ seenWhy[p] = "dead" /\ lock.owner = p

\* C4: a record older than the TTL is reclaimed by the acquire that reads
\* it even when its owner pid belongs to a live process: the call
\* overwrites the record and returns Held.
C4_AgedAcquireHeld ==
  [][\A p \in Procs :
       /\ (AcqStep(p, "acq_read") /\ lock # NoLock /\ now - lock.at > TTL) =>
            pc'[p] = "acq_overwrite"
       /\ (AcqStep(p, "acq_overwrite") /\ seenWhy[p] \in {"expired", "dead+expired"}) =>
            (lock' = LockRecord(p, now) /\ pc'[p] = "acq_recheck")
       /\ (AcqStep(p, "acq_recheck") /\ seenWhy[p] \in {"expired", "dead+expired"}) =>
            (pc'[p] = "ResolveRelease" /\ lock'.owner = p)
    ]_vars

\* C4 (amended): as above, and the call returns Held unless another process
\* wrote the record while the call was between its read and its re-check.
C4_ExpiredReclaim ==
  [][\A p \in Procs :
       /\ (AcqStep(p, "acq_read") /\ lock # NoLock /\ now - lock.at > TTL) =>
            pc'[p] = "acq_overwrite"
       /\ (AcqStep(p, "acq_overwrite") /\ seenWhy[p] \in {"expired", "dead+expired"}) =>
            (lock' = LockRecord(p, now) /\ pc'[p] = "acq_recheck")
       /\ (AcqStep(p, "acq_recheck") /\ seenWhy[p] \in {"expired", "dead+expired"}
             /\ ~raced[p]) =>
            (pc'[p] = "ResolveRelease" /\ lock'.owner = p)
    ]_vars

\* A process holds the lock it reclaimed from an expired record whose owner
\* pid was alive.
C4_Witness ==
  \E p \in Procs :
    pc[p] = "ResolveRelease" /\ seenWhy[p] = "expired" /\ lock.owner = p

\* C5: of the processes that concurrently reclaim a stale record exactly
\* one returns Held: never two of them are holders.
C5_OneReclaimer ==
  ~ \E p, q \in Procs :
      /\ p # q
      /\ pc[p] = "ResolveRelease" /\ seenWhy[p] \in StaleKinds
      /\ pc[q] = "ResolveRelease" /\ seenWhy[q] \in StaleKinds
      /\ (raced[p] \/ raced[q])

\* C6: when a holder's attempt ends (success, failure, cancellation) the
\* record it wrote is gone, and its release never deletes the record of
\* another process that reclaimed the lock in the meantime.
C6_ReleaseOnEveryExit ==
  /\ [](\A p \in Procs : pc[p] = "done" => lock.owner # p)
  /\ [][\A p \in Procs :
          (pc[p] = "release" /\ pc'[p] = "done" /\ lock # NoLock /\ lock.owner # p)
            => lock' = lock
       ]_vars

IsPrefix(t, u) ==
  /\ Len(t) <= Len(u)
  /\ \A i \in 1..Len(t) : t[i] = u[i]

\* C7: the phases of a run are entered in the order of the install flow,
\* none skipped, none entered twice, each only after the one before it.
C7_PhaseOrder ==
  \A p \in Procs :
    /\ IsPrefix(trace[p], Phases)
    /\ pc[p] \in PhaseSet => (trace[p] # << >> /\ trace[p][Len(trace[p])] = pc[p])
    /\ pc[p] \in {"promote_rename"} => Len(trace[p]) = PhaseIndex("AtomicPromote")
    /\ pc[p] \in {"commit", "rollback_remove"} => trace[p] = Phases

\* A run went through all seven phases.
C7_Witness ==
  \E p \in Procs : pc[p] = "commit" /\ trace[p] = Phases

\* C8: when a run that failed (or was cancelled) in a phase up to
\* WriteManifest returns, its staging directory does not exist and the
\* final directory and the index are exactly as they were when it began.
C8_RollbackOnFailure ==
  [][\A p \in Procs :
       (pc[p] = "release" /\ pc'[p] = "done"
          /\ outcome[p] \in {"failed", "cancelled"}) =>
         /\ staging'[p] = NoStaging
         /\ << final', index' >> = before[p]
    ]_vars

\* Installs present on disk: in the final location or moved aside.
DiskIds ==
  ({final.id} \cup {backup[p].id : p \in Procs} \cup orphans) \ {0}

\* C9: a previous install occupying the final location is moved aside
\* before the promotion and deleted only after the new install passed
\* PostInstallValidate; some install that was validated is on disk in every
\* state; a failed PostInstallValidate leaves the previous install in the
\* final location.
C9_OldUntilNewValidated ==
  /\ []((validated # {}) => (DiskIds \cap validated # {}))
  /\ [][(final # NoInst /\ final' # final) =>
          /\ final' = NoInst
          /\ \/ \E p \in Procs : backup[p] = NoInst /\ backup'[p] = final
             \/ \E p \in Procs : pc[p] = "rollback_remove" /\ pc'[p] = "rollback_restore"
       ]_vars
  /\ [][\A p \in Procs :
          (backup[p] # NoInst /\ backup'[p] = NoInst /\ final' # backup[p]
             /\ backup[p].id \notin orphans')
            => (pc[p] = "commit" /\ validated \ {backup[p].id} # {})
       ]_vars
  /\ [][\A p \in Procs :
          (pc[p] = "rollback_restore" /\ pc'[p] = "release"
             /\ outcome[p] = "validation_failed" /\ backup[p] # NoInst)
            => final' = backup[p]
       ]_vars

\* The step in which process p is killed.
KillStep(p) == alive[p] /\ ~alive'[p]

\* The install that was in the final location when p's promotion began.
Prev(p) == IF backup[p] # NoInst THEN backup[p] ELSE final

\* C10: a kill before AtomicPromote completes leaves a valid previous
\* install in the final location, where resolve finds it; a kill after it
\* leaves in the final location an install that is valid and that resolve
\* accepts.
C10_CrashAtomicity ==
  [][\A p \in Procs :
       /\ (KillStep(p) /\ pc[p] \in PrePromotePhases \cup {"AtomicPromote", "promote_rename"}
             /\ Acceptable(Prev(p)) /\ Prev(p).good)
            => final' = Prev(p)
       /\ (KillStep(p) /\ pc[p] \in {"PostInstallValidate", "commit"})
            => (Acceptable(final') /\ final'.good)
    ]_vars

\* Installs for which a manifest file exists: in a staging directory whose
\* metadata was written, in the final location, or moved aside.
ManifestIds ==
  {staging[p].id : p \in {q \in Procs : staging[q].level = 5}} \cup DiskIds

\* C12: a manifest exists for an install only if every installer step of
\* that install, promotion and final validation included, has succeeded.
C12_ManifestWrittenLast == ManifestIds \subseteq validated

(* ------------------- role resolver: calls and retention ----------------- *)

\* A freshly installed runtime: manifest written, validated.
NewInstall(role, m) ==
  [role |-> role, major |-> m, manifest |-> TRUE, intact |-> TRUE,
   usable |-> TRUE, mtime |-> 0]

\* Installations of a major under the storage root of a role, in ds.
InstallsOf(ds, role, m) ==
  {i \in DirIds : IsInstall(ds[i]) /\ ds[i].role = role /\ ds[i].major = m}

\* (variant: the retention logic looks at the role the debug override forces)
PruneSetForced(ds, role, m, inUse, force) ==
  {i \in InstallsOf(ds, EffectiveRole(role, force), m) :
     Cardinality({j \in InstallsOf(ds, EffectiveRole(role, force), m) : j > i})
       >= KeepCount} \ inUse

\* (variant: the oldest are deleted until KeepCount are left, in use or not)
PruneSetAll(ds, role, m, inUse, force) ==
  {i \in InstallsOf(ds, role, m) :
     Cardinality({j \in InstallsOf(ds, role, m) : j > i}) >= KeepCount}

\* prune(major, keepCount): the installations of the major beyond the
\* KeepCount newest, except those referenced by a live lock record or
\* resolved by an active role binding.  force, the debug override, is not
\* consulted.
PruneSet(ds, role, m, inUse, force) ==
  {i \in InstallsOf(ds, role, m) :
     Cardinality({j \in InstallsOf(ds, role, m) : j > i}) >= KeepCount} \ inUse

\* What a call returns.
Result(op, role, m, kind, from, id, installed, host, inUse, deleted) ==
  [op |-> op, role |-> role, min |-> m, kind |-> kind, from |-> from,
   id |-> id, installed |-> installed, host |-> host, inUse |-> inUse,
   deleted |-> deleted]

\* (variant: when the installer fails a compatible system Java is returned)
FailureSystemFallback(op, role, m, kind, host) ==
  IF host
  THEN Result(op, role, m, "ok", "host", 0, FALSE, host, {}, {})
  ELSE Result(op, role, m, kind, "none", 0, FALSE, host, {}, {})

\* The installer failed: the failure is surfaced, whatever the host has.
Failure(op, role, m, kind, host) ==
  Result(op, role, m, kind, "none", 0, FALSE, host, {}, {})

InstallErrors == {"InstallFailed", "LockContention"}

\* The installer runs for (role, m) after the lookup left the index ix.
\* Either a new installation is promoted and validated, the index is
\* updated and the superseded installations of that major are pruned; or
\* the failure is surfaced and nothing on disk changes.
RunInstaller(op, role, m, force, ix) ==
  \/ /\ dirCount < MaxDirs
     /\ \E inUse \in SUBSET InstallsOf(dirs, role, m) :
          LET n == dirCount + 1
              ds == [dirs EXCEPT ![n] = NewInstall(role, m)]
              del == PruneSet(ds, role, m, inUse, force)
          IN  /\ dirs' = [i \in DirIds |-> IF i \in del THEN NoDir ELSE ds[i]]
              /\ idx' = [i \in DirIds |->
                           IF i = n THEN [role |-> role, major |-> m, mtime |-> 0]
                           ELSE IF i \in del THEN NoEntry ELSE ix[i]]
              /\ dirCount' = n
              /\ res' = Result(op, role, m, "ok", "root", n, TRUE, FALSE, inUse, del)
  \/ /\ \E kind \in InstallErrors, host \in BOOLEAN :
          res' = Failure(op, role, m, kind, host)
     /\ idx' = ix
     /\ UNCHANGED << dirs, dirCount >>

\* (variant: the installer runs whether a runtime is there or not)
LookupOrInstallAlways(op, role, m, force) ==
  RunInstaller(op, role, m, force, IndexAfterLookup(role, m))

\* Resolution order: index, cheap re-validation, walk of the storage root,
\* installer; an explicit failure when all of that fails.
LookupOrInstall(op, role, m, force) ==
  IF Found(role, m) # 0
  THEN /\ idx' = IndexAfterLookup(role, m)
       /\ res' = Result(op, role, m, "ok", "root", Found(role, m), FALSE,
                        FALSE, {}, {})
       /\ UNCHANGED << dirs, dirCount >>
  ELSE RunInstaller(op, role, m, force, IndexAfterLookup(role, m))

\* Values of the debug override.
Forces == {"none"} \cup Roles

\* resolve(role, requirement), for the role computed for the phase unless
\* the debug override forces another.
ResolveCall ==
  /\ \E role \in Roles, force \in Forces, m \in Majors :
       LookupOrInstall("resolve", EffectiveRole(role, force), m, force)
  /\ UNCHANGED << vars, uiVars, mapping, probe, outside >>

\* ensureInstalled(role, requirement)
EnsureInstalledCall ==
  /\ \E role \in Roles, force \in Forces, m \in Majors :
       LookupOrInstall("ensureInstalled", EffectiveRole(role, force), m, force)
  /\ UNCHANGED << vars, uiVars, mapping, probe, outside >>

\* install/update: the installer is run for the role it is given although a
\* runtime may be there.  The debug override forces resolution only.
UpdateCall ==
  /\ \E role \in Roles, force \in Forces, m \in Majors :
       RunInstaller("update", role, m, force, idx)
  /\ UNCHANGED << vars, uiVars, mapping, probe, outside >>

\* What a modification from outside leaves: << manifest, intact, usable >>.
TouchResults ==
  { << TRUE, TRUE, TRUE >>, << TRUE, FALSE, TRUE >>, << TRUE, FALSE, FALSE >>,
    << FALSE, FALSE, FALSE >> }

\* A directory is modified from outside: its modification time changes; its
\* manifest may be lost, its content may stop matching the checksums and its
\* executable may stop working.
Touch ==
  /\ outside < MaxOutside /\ outside' = outside + 1
  /\ \E i \in DirIds, after \in TouchResults :
       /\ IsInstall(dirs[i]) /\ dirs[i].usable /\ dirs[i].mtime = 0
       /\ dirs' = [dirs EXCEPT ![i].mtime = 1, ![i].manifest = after[1],
                               ![i].intact = after[2], ![i].usable = after[3]]
  /\ res' = NoRes
  /\ UNCHANGED << vars, uiVars, mapping, probe, dirCount, idx >>

\* A directory is deleted from outside.
Remove ==
  /\ outside < MaxOutside /\ outside' = outside + 1
  /\ \E i \in DirIds : dirs[i] # NoDir /\ dirs' = [dirs EXCEPT ![i] = NoDir]
  /\ res' = NoRes
  /\ UNCHANGED << vars, uiVars, mapping, probe, dirCount, idx >>

\* An installer was killed: before the promotion it leaves a staging
\* directory without manifest, after it a promoted directory that was never
\* validated.
KilledInstall ==
  /\ dirCount < MaxDirs
  /\ outside < MaxOutside /\ outside' = outside + 1
  /\ \E role \in Roles, m \in Majors, promoted \in BOOLEAN :
       dirs' = [dirs EXCEPT ![dirCount + 1] =
                  [role |-> role, major |-> m, manifest |-> promoted,
                   intact |-> TRUE, usable |-> ~promoted, mtime |-> 0]]
  /\ dirCount' = dirCount + 1
  /\ res' = NoRes
  /\ UNCHANGED << vars, uiVars, mapping, probe, idx >>

\* Resolution while the storage roots change from outside.
NextRoles ==
  \/ ResolveCall
  \/ EnsureInstalledCall
  \/ Touch
  \/ Remove
  \/ KilledInstall

SpecRoles == Init /\ [][NextRoles]_allVars

\* Installs, updates and resolution, with what killed installers leave.
NextRetention ==
  \/ UpdateCall
  \/ ResolveCall
  \/ KilledInstall

SpecRetention == Init /\ [][NextRetention]_allVars

\* Steps that are calls of resolve or ensureInstalled.
Lookups == {"resolve", "ensureInstalled"}

\* Directories with a valid manifest that could serve (role, min).
Compatible(role, min) ==
  {i \in DirIds : IsInstall(dirs[i]) /\ dirs[i].role = role /\ dirs[i].major >= min}

\* C11: a directory without a valid manifest is never returned by resolve or
\* ensureInstalled and never counts as installed: what a successful call
\* returns has a manifest, it had one before the call unless the call
\* installed it, and when no directory of the role with a manifest could
\* serve the requirement the call installs (or fails), whatever else lies
\* under the storage root.
C11_NoManifestNotInstalled ==
  [][ (res'.op \in Lookups /\ res'.kind = "ok")
        => /\ IsInstall(dirs'[res'.id])
           /\ res'.installed \/ IsInstall(dirs[res'.id])
           /\ Compatible(res'.role, res'.min) = {} => res'.installed ]_allVars

\* A killed installer left a directory without manifest that would serve the
\* requirement, and ensureInstalled installed a new runtime.
C11_Witness ==
  /\ res.op = "ensureInstalled" /\ res.kind = "ok" /\ res.installed
  /\ \E i \in DirIds :
       /\ dirs[i] # NoDir /\ ~dirs[i].manifest /\ dirs[i].usable
       /\ dirs[i].role = res.role /\ dirs[i].major >= res.min
       /\ i < res.id

(* ---------------- required major: operations and claim ----------------- *)

\* The resolver derives the required major of a role for a version.
DeriveMajor(role, v) ==
  /\ mapping' = [mapping EXCEPT !.role = role, !.version = v,
                                !.major = RequiredMajor(role, v)]
  /\ UNCHANGED << vars, uiVars, probe, rolesVars >>

\* A runtime of some major is installed or removed.
InstalledChange(m) ==
  /\ mapping' = [mapping EXCEPT !.installed =
                   IF m \in @ THEN @ \ {m} ELSE @ \cup {m}]
  /\ UNCHANGED << vars, uiVars, probe, rolesVars >>

NextMajor ==
  \/ \E role \in Roles, v \in Versions : DeriveMajor(role, v)
  \/ \E m \in {17, 21} : InstalledChange(m)

SpecMajor == Init /\ [][NextMajor]_allVars

\* C17: Gamma's required major is 17 for every version <= 1.20.4 and 21 for
\* every version >= 1.20.5, whatever is installed; Delta's is always 17.
C17_RequiredMajor ==
  /\ mapping.role = "Gamma" =>
       LET minor == Part(mapping.version, 2)
           patch == Part(mapping.version, 3)
       IN  /\ (minor < 20 \/ (minor = 20 /\ patch <= 4)) => mapping.major = 17
           /\ (minor > 20 \/ (minor = 20 /\ patch >= 5)) => mapping.major = 21
  /\ mapping.role = "Delta" => mapping.major = 17

\* The first version of the upper range was derived while only a runtime
\* of major 17 was installed.
C17_Witness ==
  /\ mapping.role = "Gamma" /\ mapping.version = << 1, 20, 5 >>
  /\ mapping.major = 21 /\ mapping.installed = {17}

(* --------------------- validator: operation and claim ------------------ *)

\* The validator is run on a candidate executable.
RunValidate(exe, min) ==
  /\ probe' = [exe |-> exe, min |-> min, verdict |-> Validate(exe, min)]
  /\ UNCHANGED << vars, uiVars, mapping, rolesVars >>

NextValidate == \E exe \in Executables, min \in MinMajors : RunValidate(exe, min)

SpecValidate == Init /\ [][NextValidate]_allVars

\* The major an executable reports, read off the printed version.
ReportedMajor(exe) ==
  IF exe.banner = << 1, 8, 0 >> THEN 8
  ELSE IF exe.banner = << 17, 0, 9 >> THEN 17
  ELSE IF exe.banner \in {<< 21, 0, 1 >>, << 21 >>} THEN 21
  ELSE 0

\* C18: the verdict is Usable exactly when the process ran and printed a
\* version, the reported major is at least the required one and the binary
\* is 64-bit: whatever the vendor; Unusable on every subprocess failure and
\* for every 32-bit binary.
C18_VendorIndependentValidation ==
  probe # NoProbe =>
    /\ probe.verdict = "Usable" <=>
         /\ probe.exe.spawn = "ok"
         /\ ReportedMajor(probe.exe) # 0
         /\ ReportedMajor(probe.exe) >= probe.min
         /\ probe.exe.arch = 64
    /\ probe.exe.spawn # "ok" => probe.verdict = "Unusable"
    /\ probe.exe.banner = << >> => probe.verdict = "Unusable"
    /\ probe.exe.arch = 32 => probe.verdict = "Unusable"

\* A 64-bit Java 21 of the distribution the installer does not download
\* validated as Usable against a requirement of 17.
C18_Witness ==
  /\ probe # NoProbe
  /\ probe.exe.vendor = "Zulu" /\ probe.exe.arch = 64
  /\ probe.exe.banner = << 21, 0, 1 >> /\ probe.min = 17
  /\ probe.verdict = "Usable"

Validated(role, min) ==
  {i \in DirIds : /\ IsInstall(dirs[i]) /\ dirs[i].role = role
                  /\ dirs[i].major >= min /\ dirs[i].usable}

C19_IndexAgreesAfterInstall ==
  [][ /\ res'.op \in Lookups
           => \A i \in DirIds :
                (idx[i].role = res'.role /\ idx[i].major >= res'.min /\ EntryStale(i))
                  => idx'[i] = ManifestSummary(dirs'[i])
      /\ res'.installed
           => \A i \in DirIds : idx'[i] = ManifestSummary(dirs'[i]) ]_allVars

\* C19: the index is a cache.  A lookup rebuilds from the disk, or drops,
\* every stale entry it meets for the role and requirement; what it returns
\* has an entry that agrees with the manifest on disk; and after a
\* successful install the index holds the entry of the new installation and
\* no entry of a pruned one.
C19_IndexIsCache ==
  [][ /\ res'.op \in Lookups
           => /\ \A i \in DirIds :
                   (idx[i].role = res'.role /\ idx[i].major >= res'.min
                      /\ EntryStale(i))
                     => idx'[i] = ManifestSummary(dirs'[i])
              /\ res'.kind = "ok"
                   => /\ IsInstall(dirs'[res'.id])
                      /\ idx'[res'.id] = ManifestSummary(dirs'[res'.id])
      /\ res'.installed
           => /\ idx'[res'.id] = ManifestSummary(dirs'[res'.id])
              /\ \A i \in res'.deleted : idx'[i] = NoEntry /\ dirs'[i] = NoDir
    ]_allVars

\* An installation was damaged from outside after it was indexed; the next
\* call met its stale entry, rebuilt it from the disk, did not return it and
\* installed a runtime.
C19_Witness ==
  /\ res.op \in Lookups /\ res.kind = "ok" /\ res.installed
  /\ \E i \in DirIds :
       /\ i # res.id /\ IsInstall(dirs[i]) /\ ~dirs[i].usable
       /\ dirs[i].mtime = 1 /\ idx[i] = EntryOf(i)

\* Directories a step deleted.
Gone == {i \in DirIds : dirs[i] # NoDir /\ dirs'[i] = NoDir}

ScenarioD ==
  /\ res.op = "resolve" /\ res.kind = "ok" /\ ~res.installed /\ res.min = 17
  /\ dirs[res.id].major = 17
  /\ \E j \in DirIds :
       /\ j > res.id /\ IsInstall(dirs[j])
       /\ dirs[j].role = res.role /\ dirs[j].major = 21

(* ---------------- launcher UI: version catalog, operations -------------- *)

\* The catalog request was answered: the answer is normalized and stored,
\* and with nothing selected its first entry is selected.
StoreAnswer(answer) ==
  /\ minecraftVersions' = Normalize(answer)
  /\ selectedMinecraftVersion' =
       AutoSelect(Normalize(answer), selectedMinecraftVersion)
  /\ droppedEntries' = Len(answer) - Len(Normalize(answer))
  /\ versionsLoad' = "done"
  /\ LoaderEffect(selectedLoaderType,
                  AutoSelect(Normalize(answer), selectedMinecraftVersion))
  /\ UNCHANGED << minecraftVersionsError, mcFilter, minecraftVersionSearch,
                  sentVersion, selectedLoaderType >>

\* get_minecraft_versions_detailed answers.
BackendAnswers ==
  /\ versionsLoad = "backend"
  /\ \E answer \in Answers : StoreAnswer(answer)
  /\ UNCHANGED << coreVars, sideVars >>

\* get_minecraft_versions_detailed throws: the Mojang manifest is fetched.
BackendFails ==
  /\ versionsLoad = "backend"
  /\ versionsLoad' = "fallback"
  /\ UNCHANGED << minecraftVersions, minecraftVersionsError, mcFilter,
                  minecraftVersionSearch, selectedMinecraftVersion,
                  sentVersion, droppedEntries >>
  /\ UNCHANGED << coreVars, loaderVars, sideVars >>

\* The Mojang manifest answers (data.versions ?? []).
ManifestAnswers ==
  /\ versionsLoad = "fallback"
  /\ \E answer \in Answers : StoreAnswer(answer)
  /\ UNCHANGED << coreVars, sideVars >>

\* The fetch of the manifest fails too: empty catalog and an error.
ManifestFails ==
  /\ versionsLoad = "fallback"
  /\ minecraftVersions' = << >>
  /\ minecraftVersionsError' = TRUE
  /\ versionsLoad' = "done"
  /\ UNCHANGED << mcFilter, minecraftVersionSearch, selectedMinecraftVersion,
                  sentVersion, droppedEntries >>
  /\ UNCHANGED << coreVars, loaderVars, sideVars >>

\* A filter checkbox is clicked.
ToggleFilter ==
  /\ \E n \in FilterNames : mcFilter' = [mcFilter EXCEPT ![n] = ~@]
  /\ UNCHANGED << versionsLoad, minecraftVersions, minecraftVersionsError,
                  minecraftVersionSearch, selectedMinecraftVersion,
                  sentVersion, droppedEntries >>
  /\ UNCHANGED << coreVars, loaderVars, sideVars >>

\* The search box is edited.
SetSearch ==
  /\ \E q \in 0..MaxEntries :
       /\ q # minecraftVersionSearch
       /\ minecraftVersionSearch' = q
  /\ UNCHANGED << versionsLoad, minecraftVersions, minecraftVersionsError,
                  mcFilter, selectedMinecraftVersion, sentVersion,
                  droppedEntries >>
  /\ UNCHANGED << coreVars, loaderVars, sideVars >>

\* A listed version is clicked; the loader effect follows.
ClickVersion ==
  /\ \E k \in 1..Len(FilteredMinecraftVersions) :
       /\ LoaderRoom(selectedLoaderType, FilteredMinecraftVersions[k].id)
       /\ selectedMinecraftVersion' = FilteredMinecraftVersions[k].id
       /\ LoaderEffect(selectedLoaderType, FilteredMinecraftVersions[k].id)
  /\ UNCHANGED << versionsLoad, minecraftVersions, minecraftVersionsError,
                  mcFilter, minecraftVersionSearch, sentVersion,
                  droppedEntries, selectedLoaderType >>
  /\ UNCHANGED << coreVars, sideVars >>

\* createInstanceNow up to its invoke, with loader and name filled in:
\* without a selected version nothing is sent.
SendCreateInstance ==
  /\ selectedMinecraftVersion # 0
  /\ sentVersion' = selectedMinecraftVersion
  /\ UNCHANGED << versionsLoad, minecraftVersions, minecraftVersionsError,
                  mcFilter, minecraftVersionSearch, selectedMinecraftVersion,
                  droppedEntries >>
  /\ UNCHANGED << coreVars, loaderVars, sideVars >>

NextVersions ==
  \/ BackendAnswers
  \/ BackendFails
  \/ ManifestAnswers
  \/ ManifestFails
  \/ ToggleFilter
  \/ SetSearch
  \/ ClickVersion
  \/ SendCreateInstance

SpecVersions == Init /\ [][NextVersions]_allVars

\* Ids of the stored entries of type release.
ReleaseIds ==
  {minecraftVersions[k].id :
     k \in {j \in 1..Len(minecraftVersions) :
              minecraftVersions[j].version_type = "release"}}

\* C21: every version the creation screen lists has type release, and the
\* version that is selected and the version sent to create_instance are
\* ids of release entries, whatever the filter checkboxes and the search box
\* are set to and whichever source answered.
C21_OnlyReleases ==
  /\ \A k \in 1..Len(FilteredMinecraftVersions) :
       FilteredMinecraftVersions[k].version_type = "release"
  /\ selectedMinecraftVersion # 0 => selectedMinecraftVersion \in ReleaseIds
  /\ sentVersion # 0 => sentVersion \in ReleaseIds

\* The answer held entries that are not releases; with the snapshot, beta,
\* alpha and experimental boxes ticked the screen lists versions, and one was
\* sent to create_instance.
C21_Witness ==
  /\ versionsLoad = "done" /\ droppedEntries > 0
  /\ mcFilter.snapshots /\ mcFilter.betas /\ mcFilter.alphas
  /\ mcFilter.experiments
  /\ Len(FilteredMinecraftVersions) > 0
  /\ sentVersion # 0

(* --------------------- installer: the download phase -------------------- *)

\* Calls up to the end of the Download phase: acquire, release resolution,
\* download with its retries, cancellation, cleanup and release.  A step
\* that is enabled for good is taken.
NextDownload ==
  \/ \E p \in Procs :
       \/ EnsureInstalled(p)
       \/ AcquireRead(p)
       \/ AcquireCreate(p)
       \/ AcquireOverwrite(p)
       \/ AcquireRecheck(p)
       \/ ResolveRelease(p)
       \/ Download(p)
       \/ Cancel(p)
       \/ Cleanup(p)
       \/ Release(p)
       \/ Return(p)
  \/ Tick

SpecDownload ==
  /\ Init /\ [][NextDownload]_allVars
  /\ \A p \in Procs :
       WF_allVars(Download(p)) /\ WF_allVars(Cleanup(p)) /\ WF_allVars(Release(p))

\* C22: bounded download retry.  The attempts of a run never exceed
\* MaxAttempts; a failed attempt below the bound is followed by one more
\* attempt, the failure is surfaced only at the bound; then the staging
\* directory is discarded, the lock record deleted and the failure handed
\* to the caller.  A run that is downloading leaves the Download phase, and
\* a call that met a Busy lock returns LockContention without trying again.
C22_BoundedDownloadRetry ==
  /\ [][ \A p \in Procs :
           /\ attempts'[p] <= MaxAttempts
           /\ (pc[p] = "Download" /\ pc'[p] = "Download")
                => attempts'[p] \in {attempts[p], attempts[p] + 1}
           /\ (pc[p] = "Download" /\ pc'[p] = "cleanup" /\ outcome'[p] = "failed")
                => attempts[p] = MaxAttempts /\ failedAt'[p] = "Download"
           /\ (pc[p] = "cleanup" /\ pc'[p] # "cleanup")
                => pc'[p] = "release" /\ staging'[p] = NoStaging
                     /\ outcome'[p] = outcome[p]
           /\ (pc[p] = "release" /\ pc'[p] # "release")
                => pc'[p] = "done" /\ lock' = NoLock /\ outcome'[p] = outcome[p]
           /\ (pc[p] = "busy" /\ pc'[p] # "busy")
                => pc'[p] = "idle" /\ outcome[p] = "LockContention"
       ]_allVars
  /\ \A p \in Procs :
       (pc[p] = "Download") ~> (pc[p] \in {"Extract", "done"})

\* A run used up its attempts and its failure is being surfaced while the
\* other process was refused the lock.
C22_Witness ==
  \E p, q \in Procs :
    /\ pc[p] = "cleanup" /\ outcome[p] = "failed" /\ failedAt[p] = "Download"
    /\ pc[q] = "busy" /\ outcome[q] = "LockContention"

(* ---------------- launcher UI: loader versions, operations -------------- *)

\* A loader radio button is checked; the loader effect follows.
SelectLoaderType ==
  /\ \E loader \in LoaderTypes :
       /\ loader # selectedLoaderType
       /\ LoaderRoom(loader, selectedMinecraftVersion)
       /\ selectedLoaderType' = loader
       /\ LoaderEffect(loader, selectedMinecraftVersion)
  /\ UNCHANGED << coreVars, versionVars, sideVars >>

\* get_loader_versions answers a request: the continuation of
\* loadLoaderVersions stores the list and selects its first version.
LoaderAnswers ==
  /\ \E r \in loaderRequests : \E versions \in LoaderAnswersOf(r) :
       /\ loaderRequests' = loaderRequests \ {r}
       /\ loaderVersions' = versions
       /\ selectedLoaderVersion' = FirstOrNull(versions)
       /\ loaderVersionsLoading' = FALSE
  /\ UNCHANGED << selectedLoaderType, loaderVersionsError >>
  /\ UNCHANGED << coreVars, versionVars, sideVars >>

\* get_loader_versions throws: empty list, nothing selected, an error.
LoaderFails ==
  /\ \E r \in loaderRequests : loaderRequests' = loaderRequests \ {r}
  /\ loaderVersions' = << >>
  /\ selectedLoaderVersion' = NoLoaderVersion
  /\ loaderVersionsError' = TRUE
  /\ loaderVersionsLoading' = FALSE
  /\ UNCHANGED selectedLoaderType
  /\ UNCHANGED << coreVars, versionVars, sideVars >>

\* A listed loader version is clicked.
ClickLoaderVersion ==
  /\ selectedLoaderType # "vanilla"
  /\ \E k \in 1..Len(loaderVersions) :
       selectedLoaderVersion' = loaderVersions[k]
  /\ UNCHANGED << selectedLoaderType, loaderVersions, loaderVersionsLoading,
                  loaderVersionsError, loaderRequests >>
  /\ UNCHANGED << coreVars, versionVars, sideVars >>

NextLoader ==
  \/ BackendAnswers
  \/ ClickVersion
  \/ SelectLoaderType
  \/ LoaderAnswers
  \/ LoaderFails
  \/ ClickLoaderVersion

SpecLoader == Init /\ [][NextLoader]_allVars

\* The selected pair.
CurrentPair ==
  [loaderType |-> selectedLoaderType,
   minecraftVersion |-> selectedMinecraftVersion]

\* A loader version published for the pair r.
OfPair(v, r) ==
  v.loaderType = r.loaderType /\ v.minecraftVersion = r.minecraftVersion

\* C23: once no get_loader_versions request is in flight, with a mod loader
\* and a Minecraft version selected, the loader versions listed and the
\* selected loader version are versions returned for the selected (loader,
\* Minecraft version) pair; with vanilla the list is empty and "integrado" is
\* selected.  A late answer to a superseded request does not overwrite them.
C23_NoStaleLoaderVersions ==
  loaderRequests = {} =>
    IF SendsLoaderRequest(selectedLoaderType, selectedMinecraftVersion)
    THEN /\ \A k \in 1..Len(loaderVersions) :
              OfPair(loaderVersions[k], CurrentPair)
         /\ selectedLoaderVersion # NoLoaderVersion =>
              OfPair(selectedLoaderVersion, CurrentPair)
    ELSE /\ loaderVersions = << >>
         /\ selectedLoaderVersion =
              IF selectedLoaderType = "vanilla" THEN Integrado
              ELSE NoLoaderVersion

(* ---------------- launcher UI: instances, operations -------------------- *)

\* list_instances of the mount effect answers, or throws (nothing listed).
LoadInstances ==
  /\ instancesLoad
  /\ instancesLoad' = FALSE
  /\ instances' \in {stored, {}}
  /\ UNCHANGED << stored, selectedInstance, selectedInstanceIds,
                  pendingDeleteInstances, deleteInProgress, deleteCalls,
                  closeTimer, sideCalls >>
  /\ UNCHANGED << coreVars, versionVars, loaderVars, restVars, logVars >>

\* onSelectInstance(instance, multiSelect): a card is clicked, with or
\* without Ctrl.  The modal, when open, covers the page.
OnSelectInstance ==
  /\ pendingDeleteInstances = NoPending
  /\ \E i \in instances, multiSelect \in BOOLEAN :
       IF multiSelect /\ i \in IdsOf(selectedInstanceIds)
       THEN LET updatedIds == SelectSeq(selectedInstanceIds, LAMBDA x : x # i)
                last == IF Len(updatedIds) > 0
                        THEN updatedIds[Len(updatedIds)] ELSE 0
            IN  /\ selectedInstanceIds' = updatedIds
                /\ selectedInstance' = IF last \in instances THEN last ELSE 0
                /\ UNCHANGED << launchLogs, launchProgress >>
       ELSE /\ selectedInstanceIds' =
                 IF multiSelect THEN Append(selectedInstanceIds, i)
                 ELSE << i >>
            /\ selectedInstance' = i
            /\ launchLogs' = << >>
            /\ launchProgress' = NoProgress
  /\ UNCHANGED << stored, instancesLoad, instances, pendingDeleteInstances,
                  deleteInProgress, deleteCalls, closeTimer, sideCalls >>
  /\ UNCHANGED << createLogs, eventClock, deliveries, lastEvent >>
  /\ UNCHANGED << coreVars, versionVars, loaderVars, restVars >>

\* openDeleteSelectedModal: "Eliminar" of the toolbar.
OpenDeleteSelectedModal ==
  /\ pendingDeleteInstances = NoPending
  /\ SelectedInstances # << >>
  /\ pendingDeleteInstances' = SelectedInstances
  /\ UNCHANGED << stored, instancesLoad, instances, selectedInstance,
                  selectedInstanceIds, deleteInProgress, deleteCalls,
                  closeTimer, sideCalls >>
  /\ UNCHANGED << coreVars, versionVars, loaderVars, restVars, logVars >>

\* handleInstanceAction("Borrar")
ActionBorrar ==
  /\ pendingDeleteInstances = NoPending
  /\ selectedInstance # 0
  /\ pendingDeleteInstances' = << selectedInstance >>
  /\ UNCHANGED << stored, instancesLoad, instances, selectedInstance,
                  selectedInstanceIds, deleteInProgress, deleteCalls,
                  closeTimer, sideCalls >>
  /\ UNCHANGED << coreVars, versionVars, loaderVars, restVars, logVars >>

\* (variant: the buttons of the modal are not disabled)
ModalEnabledAlways == pendingDeleteInstances # NoPending

\* The buttons and the backdrop of the modal react to a click.
ModalEnabled == pendingDeleteInstances # NoPending /\ ~deleteInProgress

\* "Cancelar" or a click on the backdrop.
CloseDeleteModal ==
  /\ ModalEnabled
  /\ pendingDeleteInstances' = NoPending
  /\ UNCHANGED << stored, instancesLoad, instances, selectedInstance,
                  selectedInstanceIds, deleteInProgress, deleteCalls,
                  closeTimer, sideCalls >>
  /\ UNCHANGED << coreVars, versionVars, loaderVars, restVars, logVars >>

\* "Eliminar instancia(s)" or "Solicitar permisos de administrador":
\* deleteInstances(pendingDeleteInstances) up to its first await.  The call
\* keeps the selectedInstance of the render it was made from.
StartDelete ==
  /\ ModalEnabled
  /\ deleteInProgress' = TRUE
  /\ deleteCalls' =
       deleteCalls \cup {[batch |-> pendingDeleteInstances, k |-> 1,
                          gone |-> {}, seen |-> selectedInstance,
                          phase |-> "invoke"]}
  /\ UNCHANGED << stored, instancesLoad, instances, selectedInstance,
                  selectedInstanceIds, pendingDeleteInstances, closeTimer,
                  sideCalls >>
  /\ UNCHANGED << coreVars, versionVars, loaderVars, restVars, logVars >>

\* finally { setDeleteInProgress(false) } and the call is over.
DeleteReturns(c) ==
  /\ deleteInProgress' = FALSE
  /\ deleteCalls' = deleteCalls \ {c}

\* delete_instance_with_elevation answers "deleted" for the instance the
\* loop is at: the loop goes on, or after the last instance the deleted ids
\* leave the list and the selection and reloadInstances is awaited.
DeleteAnswersDeleted ==
  /\ \E c \in deleteCalls :
       /\ c.phase = "invoke"
       /\ stored' = stored \ {c.batch[c.k]}
       /\ IF c.k < Len(c.batch)
          THEN /\ deleteCalls' =
                    (deleteCalls \ {c})
                      \cup {[c EXCEPT !.k = @ + 1,
                                      !.gone = @ \cup {c.batch[c.k]}]}
               /\ UNCHANGED << instances, selectedInstance,
                               selectedInstanceIds, closeTimer >>
          ELSE /\ deleteCalls' =
                    (deleteCalls \ {c})
                      \cup {[c EXCEPT !.gone = @ \cup {c.batch[c.k]},
                                      !.phase = "reload"]}
               /\ instances' = instances \ IdsOf(c.batch)
               /\ selectedInstanceIds' =
                    SelectSeq(selectedInstanceIds,
                              LAMBDA x : x \notin IdsOf(c.batch))
               /\ selectedInstance' = 0
               /\ closeTimer' = TRUE
  /\ UNCHANGED << instancesLoad, pendingDeleteInstances, deleteInProgress,
                  sideCalls >>
  /\ UNCHANGED << coreVars, versionVars, loaderVars, restVars, logVars >>

\* It answers "needs_elevation", or the invoke throws: the call returns.
DeleteAnswersNeedsElevation ==
  /\ \E c \in deleteCalls :
       /\ c.phase = "invoke"
       /\ DeleteReturns(c)
  /\ UNCHANGED << stored, instancesLoad, instances, selectedInstance,
                  selectedInstanceIds, pendingDeleteInstances, closeTimer,
                  sideCalls >>
  /\ UNCHANGED << coreVars, versionVars, loaderVars, restVars, logVars >>

\* It answers "elevation_requested": reloadInstances is awaited.
DeleteAnswersElevationRequested ==
  /\ \E c \in deleteCalls :
       /\ c.phase = "invoke"
       /\ deleteCalls' = (deleteCalls \ {c}) \cup {[c EXCEPT !.phase = "reload"]}
  /\ UNCHANGED << stored, instancesLoad, instances, selectedInstance,
                  selectedInstanceIds, pendingDeleteInstances,
                  deleteInProgress, closeTimer, sideCalls >>
  /\ UNCHANGED << coreVars, versionVars, loaderVars, restVars, logVars >>

\* reloadInstances after list_instances answered saved, called from a
\* render whose selectedInstance was seen.
ReloadInstances(saved, seen) ==
  /\ instances' = saved
  /\ selectedInstanceIds' =
       SelectSeq(selectedInstanceIds, LAMBDA x : x \in saved)
  /\ selectedInstance' =
       IF seen = 0 THEN selectedInstance
       ELSE IF seen \in saved THEN seen ELSE 0

\* The reloadInstances a deleteInstances call awaits is over: list_instances
\* answered, or threw (catch); the call returns.
DeleteReloads ==
  /\ \E c \in deleteCalls :
       /\ c.phase = "reload"
       /\ \/ ReloadInstances(stored, c.seen)
          \/ UNCHANGED << instances, selectedInstanceIds, selectedInstance >>
       /\ DeleteReturns(c)
  /\ UNCHANGED << stored, instancesLoad, pendingDeleteInstances, closeTimer,
                  sideCalls >>
  /\ UNCHANGED << coreVars, versionVars, loaderVars, restVars, logVars >>

\* 900 ms after a successful delete the modal is closed.
CloseTimerFires ==
  /\ closeTimer
  /\ closeTimer' = FALSE
  /\ pendingDeleteInstances' = NoPending
  /\ UNCHANGED << stored, instancesLoad, instances, selectedInstance,
                  selectedInstanceIds, deleteInProgress, deleteCalls,
                  sideCalls >>
  /\ UNCHANGED << coreVars, versionVars, loaderVars, restVars, logVars >>

\* "Optimizar instancia" of a card: quickOptimizeInstance up to its await.
QuickOptimizeInstance ==
  /\ pendingDeleteInstances = NoPending
  /\ Cardinality(sideCalls) < MaxSideCalls
  /\ \E i \in instances :
       /\ \A c \in sideCalls : ~(c.op = "optimize" /\ c.id = i)
       /\ sideCalls' = sideCalls \cup {SideCall("optimize", i, "invoke")}
  /\ UNCHANGED << stored, instancesLoad, instances, selectedInstance,
                  selectedInstanceIds, pendingDeleteInstances,
                  deleteInProgress, deleteCalls, closeTimer >>
  /\ UNCHANGED << coreVars, versionVars, loaderVars, restVars, logVars >>

\* optimize_instance_with_real_process answers with the instance (the entry
\* of the list is replaced, and the focused instance when the call saw that
\* instance focused), or throws.
OptimizeAnswers ==
  /\ \E c \in sideCalls :
       /\ c.op = "optimize"
       /\ sideCalls' = sideCalls \ {c}
       /\ \/ selectedInstance' = IF c.seen = c.id THEN c.id
                                  ELSE selectedInstance
          \/ UNCHANGED selectedInstance
  /\ UNCHANGED << stored, instancesLoad, instances, selectedInstanceIds,
                  pendingDeleteInstances, deleteInProgress, deleteCalls,
                  closeTimer >>
  /\ UNCHANGED << coreVars, versionVars, loaderVars, restVars, logVars >>

\* "OK" of the creation screen: createInstanceNow up to its await, with a
\* name typed in.  The payload carries the selected Minecraft version.
CreateInstanceNow ==
  /\ ~CreateInProgress
  /\ selectedMinecraftVersion # 0
  /\ selectedLoaderType # "vanilla" => selectedLoaderVersion # NoLoaderVersion
  /\ sentVersion' = selectedMinecraftVersion
  /\ sideCalls' = sideCalls \cup {SideCall("create", 0, "invoke")}
  /\ UNCHANGED << versionsLoad, minecraftVersions, minecraftVersionsError,
                  mcFilter, minecraftVersionSearch, selectedMinecraftVersion,
                  droppedEntries >>
  /\ UNCHANGED << stored, instancesLoad, instances, selectedInstance,
                  selectedInstanceIds, pendingDeleteInstances,
                  deleteInProgress, deleteCalls, closeTimer >>
  /\ createLogs' = << >>
  /\ UNCHANGED << launchLogs, launchProgress, eventClock, deliveries,
                  lastEvent >>
  /\ UNCHANGED << coreVars, loaderVars, restVars >>

\* create_instance answers with the new instance (reloadInstances is
\* awaited), or throws (catch, finally).
CreateAnswers ==
  /\ \E c \in sideCalls :
       /\ c.op = "create" /\ c.phase = "invoke"
       /\ \/ \E n \in FreshIds :
               /\ stored' = stored \cup {n}
               /\ sideCalls' =
                    (sideCalls \ {c})
                      \cup {[c EXCEPT !.phase = "reload", !.id = n]}
          \/ /\ sideCalls' = sideCalls \ {c}
             /\ UNCHANGED stored
  /\ UNCHANGED << instancesLoad, instances, selectedInstance,
                  selectedInstanceIds, pendingDeleteInstances,
                  deleteInProgress, deleteCalls, closeTimer >>
  /\ UNCHANGED << coreVars, versionVars, loaderVars, restVars, logVars >>

\* The reloadInstances of createInstanceNow is over: the created instance
\* is focused; or list_instances threw (catch, finally).
CreateReloads ==
  /\ \E c \in sideCalls :
       /\ c.op = "create" /\ c.phase = "reload"
       /\ sideCalls' = sideCalls \ {c}
       /\ \/ /\ instances' = stored
             /\ selectedInstanceIds' =
                  SelectSeq(selectedInstanceIds, LAMBDA x : x \in stored)
             /\ selectedInstance' = c.id
          \/ UNCHANGED << instances, selectedInstanceIds, selectedInstance >>
  /\ UNCHANGED << stored, instancesLoad, pendingDeleteInstances,
                  deleteInProgress, deleteCalls, closeTimer >>
  /\ UNCHANGED << coreVars, versionVars, loaderVars, restVars, logVars >>

NextInstances ==
  \/ LoadInstances
  \/ OnSelectInstance
  \/ OpenDeleteSelectedModal
  \/ ActionBorrar
  \/ CloseDeleteModal
  \/ StartDelete
  \/ DeleteAnswersDeleted
  \/ DeleteAnswersNeedsElevation
  \/ DeleteAnswersElevationRequested
  \/ DeleteReloads
  \/ CloseTimerFires
  \/ QuickOptimizeInstance
  \/ OptimizeAnswers

SpecInstances == Init /\ [][NextInstances]_allVars

\* C24: when a deleteInstances call returns, every instance of its batch
\* for which delete_instance_with_elevation answered "deleted" is absent
\* from instances and from selectedInstanceIds, on every exit path.
C24_DeletedAreUnlisted ==
  [][\A c \in deleteCalls :
       c \notin deleteCalls' =>
         \/ \E d \in deleteCalls' : d.batch = c.batch /\ d.seen = c.seen
         \/ /\ c.gone \cap instances' = {}
            /\ c.gone \cap IdsOf(selectedInstanceIds') = {}]_allVars

\* C25: deleteInProgress is true exactly while a deleteInstances call is
\* executing, on every exit path; and while it is true no click on the
\* modal starts another call, and the modal is not closed except by the
\* timer of a successful delete.
C25_SingleDeleteInFlight ==
  [][/\ deleteInProgress' <=> deleteCalls' # {}
     /\ Cardinality(deleteCalls') <= 1
     /\ deleteInProgress =>
          /\ Cardinality(deleteCalls') <= Cardinality(deleteCalls)
          /\ pendingDeleteInstances # NoPending
                /\ pendingDeleteInstances' = NoPending
              => closeTimer /\ ~closeTimer']_allVars

\* A call that was answered "deleted" for its whole batch is awaiting
\* reloadInstances: the modal is open and its buttons are disabled.
C25_Witness ==
  /\ deleteInProgress /\ pendingDeleteInstances # NoPending
  /\ \E c \in deleteCalls : c.phase = "reload" /\ c.gone = IdsOf(c.batch)

\* The creation screen together with the instances page.
NextCreate ==
  \/ BackendAnswers
  \/ LoadInstances
  \/ OnSelectInstance
  \/ CreateInstanceNow
  \/ CreateAnswers
  \/ CreateReloads

SpecCreate == Init /\ [][NextCreate]_allVars

\* C26: whenever an instance is focused, its id is among the selected ids
\* and among the listed instances.
C26_SelectionConsistent ==
  selectedInstance # 0 =>
    /\ selectedInstance \in IdsOf(selectedInstanceIds)
    /\ selectedInstance \in instances

(* ---------------- launcher UI: view history, operations ----------------- *)
\* The state of App outside the view history.
outsideHistory ==
  << coreVars, versionVars, loaderVars, instanceVars, sectionVars, logVars,
     progressVars >>

\* A button that calls navigateToView is clicked.
ClickNavigate ==
  /\ Len(backHistory) < MaxHistory
  /\ \E v \in ButtonTargets(currentView) :
       /\ SetHistory(NavigateToView(HistoryNow, v, currentView))
       /\ navTarget' = v
  /\ UNCHANGED pendingNav
  /\ UNCHANGED outsideHistory

\* The back arrow (disabled without backHistory).
ClickNavigateBack ==
  /\ backHistory # << >>
  /\ SetHistory(HandleNavigateBack(HistoryNow))
  /\ navTarget' = "none"
  /\ UNCHANGED pendingNav
  /\ UNCHANGED outsideHistory

\* The forward arrow (disabled without forwardHistory).
ClickNavigateForward ==
  /\ forwardHistory # << >>
  /\ SetHistory(HandleNavigateForward(HistoryNow))
  /\ navTarget' = "none"
  /\ UNCHANGED pendingNav
  /\ UNCHANGED outsideHistory

\* handleGenerate of the creation page, or handleDeleteInstance of the
\* instance sidebar, up to its await: the handler keeps the currentView of
\* the render it was made from.
StartHandler ==
  /\ Cardinality(pendingNav) < MaxPendingNav
  /\ currentView = "create-instance" \/ ShowInstanceToolsOnly(currentView)
  /\ pendingNav' = pendingNav \cup {currentView}
  /\ navTarget' = "none"
  /\ UNCHANGED << currentView, backHistory, forwardHistory >>
  /\ UNCHANGED outsideHistory

\* create_instance or delete_instance answers: the handler goes on and
\* calls navigateToView("home").
HandlerNavigatesHome ==
  /\ Len(backHistory) < MaxHistory
  /\ \E seen \in pendingNav :
       /\ pendingNav' = pendingNav \ {seen}
       /\ SetHistory(NavigateToView(HistoryNow, "home", seen))
  /\ navTarget' = "home"
  /\ UNCHANGED outsideHistory

\* The invoke throws: the handler ends in its catch.
HandlerFails ==
  /\ \E seen \in pendingNav : pendingNav' = pendingNav \ {seen}
  /\ navTarget' = "none"
  /\ UNCHANGED << currentView, backHistory, forwardHistory >>
  /\ UNCHANGED outsideHistory

NextHistory ==
  \/ ClickNavigate
  \/ ClickNavigateBack
  \/ ClickNavigateForward
  \/ StartHandler
  \/ HandlerNavigatesHome
  \/ HandlerFails

SpecHistory == Init /\ [][NextHistory]_allVars

\* Back then forward restores the history, and back and forward keep the
\* number of views kept.
RoundTrip(h) ==
  /\ h.backHistory # << >> =>
       HandleNavigateForward(HandleNavigateBack(h)) = h
  /\ \A g \in {HandleNavigateBack(h), HandleNavigateForward(h)} :
       Len(g.backHistory) + Len(g.forwardHistory)
         = Len(h.backHistory) + Len(h.forwardHistory)

\* C27: back followed by forward restores currentView, backHistory and
\* forwardHistory; back and forward keep the sum of the lengths of the two
\* histories; and every call of navigateToView with another view than the
\* current one pushes the view left on backHistory and empties
\* forwardHistory, while a call with the current view changes nothing.
C27_ViewHistory ==
  [][/\ RoundTrip(HistoryNow)
     /\ navTarget' # "none" =>
          IF navTarget' = currentView
          THEN UNCHANGED << currentView, backHistory, forwardHistory >>
          ELSE /\ currentView' = navTarget'
               /\ backHistory' = Append(backHistory, currentView)
               /\ forwardHistory' = << >>]_allVars

(* ---------------- launcher UI: creation sections, operations ------------ *)
\* The state of App outside the section history.
outsideSections ==
  << coreVars, versionVars, loaderVars, instanceVars, historyVars, logVars,
     progressVars >>

\* goBackCreateSection
GoBackCreateSection ==
  /\ IF createHistoryIndex <= 0
     THEN UNCHANGED << createHistoryIndex, activeCreateSection >>
     ELSE /\ createHistoryIndex' = createHistoryIndex - 1
          /\ activeCreateSection' =
               createSectionHistory[(createHistoryIndex - 1) + 1]
  /\ selectLog' = NoSelect
  /\ UNCHANGED createSectionHistory
  /\ UNCHANGED outsideSections

\* goForwardCreateSection
GoForwardCreateSection ==
  /\ IF createHistoryIndex >= Len(createSectionHistory) - 1
     THEN UNCHANGED << createHistoryIndex, activeCreateSection >>
     ELSE /\ createHistoryIndex' = createHistoryIndex + 1
          /\ activeCreateSection' =
               createSectionHistory[(createHistoryIndex + 1) + 1]
  /\ selectLog' = NoSelect
  /\ UNCHANGED createSectionHistory
  /\ UNCHANGED outsideSections

\* selectCreateSection(section)
SelectCreateSection ==
  /\ \E section \in Sections :
       /\ Len(HistoryAfterSelect(section)) <= MaxCreateHistory
       /\ activeCreateSection' = section
       /\ createSectionHistory' = HistoryAfterSelect(section)
       /\ createHistoryIndex' =
            IF Len(HistoryAfterSelect(section)) > createHistoryIndex + 1
            THEN Len(HistoryAfterSelect(section)) - 1
            ELSE createHistoryIndex
       /\ selectLog' =
            [section |-> section,
             discarded |->
               Len(createSectionHistory) - (createHistoryIndex + 1)]
  /\ UNCHANGED outsideSections

NextSections ==
  \/ GoBackCreateSection
  \/ GoForwardCreateSection
  \/ SelectCreateSection

SpecSections == Init /\ [][NextSections]_allVars

outsideLogs ==
  << coreVars, versionVars, loaderVars, instanceVars, restVars >>

\* A burst the backend emits now: count events of one instance.
Burst(kind, id, count) ==
  [kind |-> kind, id |-> id, first |-> eventClock + 1, count |-> count]

\* The backend emitted a burst.
Delivered(burst) ==
  /\ deliveries < MaxDeliveries
  /\ deliveries' = deliveries + 1
  /\ eventClock' = eventClock + burst.count
  /\ lastEvent' = burst

\* instance-launch-log events reach the listener of the current render.
OnLaunchLog ==
  /\ \E i \in InstanceIds, c \in {1, LogBurst} :
     LET burst == Burst("launch-log", i, c) IN
       /\ Delivered(burst)
       /\ launchLogs' =
            IF PassesFilter(burst.id)
            THEN AppendLogs(launchLogs, EventsOf(burst))
            ELSE launchLogs
  /\ UNCHANGED << launchProgress, createLogs >>
  /\ UNCHANGED outsideLogs

\* instance-launch-progress events reach the listener: the last one stays.
OnLaunchProgress ==
  /\ \E i \in InstanceIds :
     LET burst == Burst("launch-progress", i, 1) IN
       /\ Delivered(burst)
       /\ launchProgress' =
            IF PassesFilter(burst.id)
            THEN EventsOf(burst)[burst.count]
            ELSE launchProgress
  /\ UNCHANGED << launchLogs, createLogs >>
  /\ UNCHANGED outsideLogs

\* instance-create-log events reach the listener.
OnCreateLog ==
  /\ \E c \in {1, LogBurst} :
     LET burst == Burst("create-log", 0, c) IN
       /\ Delivered(burst)
       /\ createLogs' = AppendLogs(createLogs, EventsOf(burst))
  /\ UNCHANGED << launchLogs, launchProgress >>
  /\ UNCHANGED outsideLogs

\* Events emitted while the listeners are being set up again, or after the
\* effect was cleaned up, are dropped.
EventsMissed ==
  /\ Delivered(Burst("missed", 0, 1))
  /\ UNCHANGED << launchLogs, launchProgress, createLogs >>
  /\ UNCHANGED outsideLogs

NextLogs ==
  \/ LoadInstances
  \/ OnSelectInstance
  \/ OnLaunchLog
  \/ OnLaunchProgress
  \/ OnCreateLog
  \/ EventsMissed

SpecLogs == Init /\ [][NextLogs]_allVars

\* The last k entries of a list.
MostRecent(list, k) ==
  SubSeq(list, IF Len(list) > k THEN Len(list) - k + 1 ELSE 1, Len(list))

\* C29: launchLogs and createLogs hold at most 101 entries; events that are
\* received are appended in arrival order and the 101 most recent entries
\* stay; and with an instance selected, launch log and launch progress
\* events of another instance leave launchLogs and launchProgress
\* unchanged.
C29_BoundedLogs ==
  [][/\ Len(launchLogs') <= KeepLogs + 1
     /\ Len(createLogs') <= KeepLogs + 1
     /\ eventClock' > eventClock =>
          /\ lastEvent'.kind = "create-log" =>
               createLogs'
                 = MostRecent(createLogs \o EventsOf(lastEvent'), KeepLogs + 1)
          /\ lastEvent'.kind \in {"launch-log", "launch-progress"}
                /\ selectedInstance # 0 /\ lastEvent'.id # selectedInstance
              => UNCHANGED << launchLogs, launchProgress >>
          /\ lastEvent'.kind = "launch-log"
                /\ (selectedInstance = 0 \/ lastEvent'.id = selectedInstance)
              => launchLogs'
                   = MostRecent(launchLogs \o EventsOf(lastEvent'),
                                KeepLogs + 1)]_allVars

\* The launch log is full and has lost its oldest entries, and the events
\* delivered last were launch log events of another instance than the
\* selected one.
C29_Witness ==
  /\ Len(launchLogs) = KeepLogs + 1
  /\ launchLogs[1].n > 1
  /\ selectedInstance # 0
  /\ lastEvent.kind = "launch-log" /\ lastEvent.id # selectedInstance
  /\ \A k \in 1..Len(launchLogs) : launchLogs[k].id = selectedInstance

(* ---------------- launcher UI: launch progress, operations -------------- *)
\* The state of App outside the launch progress.
outsideProgress ==
  << coreVars, versionVars, loaderVars, instanceVars, historyVars,
     sectionVars, logVars >>

\* updateLaunchProgress(id, state, value, stage)
UpdateLaunchProgress(id, state, value, stage) ==
  instanceLaunchProgress' =
    [instanceLaunchProgress EXCEPT
       ![id] = [state |-> state, value |-> value, stage |-> stage]]

\* handleStartInstance(id) up to its await.
HandleStartInstance ==
  /\ \E id \in InstanceIds :
       /\ id \notin startCalls
       /\ selectedInstanceId' = id
       /\ UpdateLaunchProgress(id, "running", 4, "start")
       /\ startCalls' = startCalls \cup {id}
  /\ UNCHANGED downloadLines
  /\ UNCHANGED outsideProgress

\* launch_instance returns, or throws (the entry shows the error).
StartInstanceSettles ==
  /\ \E id \in startCalls :
       /\ startCalls' = startCalls \ {id}
       /\ \/ UNCHANGED instanceLaunchProgress
          \/ UpdateLaunchProgress(id, "error", 100, "start")
  /\ UNCHANGED << selectedInstanceId, downloadLines >>
  /\ UNCHANGED outsideProgress

\* An instance-launch-progress event: the entry of its instance is set.
OnInstanceLaunchProgress ==
  /\ \E id \in InstanceIds, state \in ProgressStates,
        value \in ReportedValues :
       UpdateLaunchProgress(id, state, value, "backend")
  /\ UNCHANGED << selectedInstanceId, startCalls, downloadLines >>
  /\ UNCHANGED outsideProgress

\* A download-progress event reaches the listener set up for the opened
\* instance: a line is logged and the entry of that instance is updated.
OnDownloadProgress ==
  /\ selectedInstanceId # 0
  /\ downloadLines < MaxDownloadEvents
  /\ downloadLines' = downloadLines + 1
  /\ \E bytes \in 0..MaxBytes, total \in {NoTotal} \cup 0..MaxBytes :
       instanceLaunchProgress' =
         [instanceLaunchProgress EXCEPT
            ![selectedInstanceId] = AfterDownload(@, bytes, total)]
  /\ UNCHANGED << selectedInstanceId, startCalls >>
  /\ UNCHANGED outsideProgress

NextProgress ==
  \/ HandleStartInstance
  \/ StartInstanceSettles
  \/ OnInstanceLaunchProgress
  \/ OnDownloadProgress

SpecProgress == Init /\ [][NextProgress]_allVars

=============
